---- MODULE Spec2Model ----
(***************************************************************************)
(* Model of the rate-limited Riot API client (lol_wrapper/client.py) and   *)
(* of the report pipeline get_player_wrapped (lol_wrapper/server_http.py). *)
(*                                                                         *)
(* Time is an integer number of ticks of 0.05 s, the smallest duration the *)
(* code uses (the epsilon of the one-second wait).  time() is the variable *)
(* clock; asyncio.sleep(d) is a deadline clock + d the sleeper waits for.  *)
(* Code between two awaits runs as one step of the event loop.             *)
(***************************************************************************)
EXTENDS Integers, Sequences, FiniteSets, TLC

\* ------------------------------------------------------------ constants

\* ticks in one second: 1 tick = 0.05 s (the `+ 0.05` of the one-second wait)
TicksPerSecond == 20

\* self._requests_per_second
requests_per_second == 19

\* self._requests_per_2min
requests_per_2min == 95

\* the literal 120 (seconds) of the two-minute window
TwoMinSeconds == 120

\* `now - t < 1.0`
SecondWindow == TicksPerSecond

\* `now - t < 120`
TwoMinWindow == TwoMinSeconds * TicksPerSecond

\* `wait_time + 0.1`
EpsTwoMin == 2

\* `+ 0.05`
EpsSecond == 1

\* `max_retries: int = 3`
max_retries == 3

\* `headers.get('Retry-After', 2)`
DefaultRetryAfter == 2

\* `batch_size = 100`
batch_size == 100

\* get_player_wrapped makes five profile calls before it collects match IDs
ProfileCalls == 5

\* ------------------------------------------------------------ bounds

\* concurrent callers of the shared client
NumCallers == 2

\* admit() calls made in one run of Spec
MaxAdmits == 115

\* idle gaps (time passing with nobody asleep) in one run
MaxGaps == 1

\* fetches (_make_request calls) started in one run of SpecFetch
MaxFetches == 2

\* responses other than a 2xx with a JSON body in one run of SpecWrapped
MaxFaults == 1

\* largest max_matches argument of get_player_wrapped
MaxMatchesArg == 3

\* the upstream holds at most MaxPages full pages of match IDs
MaxPages == 2

\* longest match list given to analyze_match_history
MaxAnalyzed == 3

\* calls of analyze_match_history in one run
MaxCalls == 2

\* most keys in a dict given to analyze_temporal_patterns
MaxPeriods == 2

\* the older matches an upstream returns that ignores the time window
MaxStale == 1

\* longest list of match IDs given to filter_matches_by_year
MaxIds == 2

\* admit() calls made in one run of SpecLive
MaxLiveCalls == 4

Procs == 1..NumCallers

None == 0

\* lengths of the idle gaps: one tick, one second, two minutes
GapSet == {EpsSecond, SecondWindow, TwoMinWindow}

VARIABLES
    clock,          \* time(), in ticks
    request_times,  \* self._request_times
    lockHolder,     \* self._rate_limit_lock: the task holding it, or None
    lockWaiters,    \* self._rate_limit_lock: FIFO queue of waiting tasks
    pc,             \* position of each task inside _wait_for_rate_limit
    now,            \* the local `now` of each task
    wake,           \* deadline of the asyncio.sleep each task is in
    admitted,       \* history: every timestamp ever appended to the ledger
    calls,          \* history: number of admit() calls started
    gaps,           \* history: number of idle gaps taken
    s3,             \* the side channel: is S3_RAW_DATA_BUCKET set, does put_object work
    fpc,            \* position of each task inside _make_request
    attempt,        \* the loop variable `attempt` of each task
    fresult,        \* what _make_request returned or raised
    resps,          \* history: the responses the current fetch received
    waits,          \* history: the backoff waits (seconds) of the current fetch
    gets,           \* history: GETs the current fetch has sent
    fadm,           \* history: timestamps the current fetch added to the ledger
    fetches,        \* history: number of fetches started
    faultsLeft,     \* upstream: failing responses it may still give
    upstream_n,     \* upstream: number of match IDs it holds in the window
    stale,          \* upstream: older match IDs it returns all the same
    max_matches_arg,    \* the argument max_matches of get_player_wrapped
    wpc,            \* position of the report task inside get_player_wrapped
    max_matches,    \* the local max_matches, after `max(max_matches, 1)`
    step,           \* which of the profile calls is under way
    offset,         \* the local `offset`
    all_match_ids,  \* the local `all_match_ids`
    total_matches_in_year,  \* the local of that name; -1 while unset
    match_ids,      \* the local `match_ids`
    di,             \* index in match_ids of the detail loop
    matches,        \* the local `matches`
    challenge_analysis, \* the local of that name
    outcome,        \* what get_player_wrapped returned
    requests,       \* history: the ID-page and detail requests issued, in order
    pages_received, \* history: number of ID pages received
    failed,         \* history: indices in match_ids whose detail fetch raised
    puuid,          \* analyze_match_history: the argument puuid
    stats,          \* analyze_match_history: the dict `stats` of the last call
    results,        \* history: what the calls of analyze_match_history returned
    monthly_stats,  \* analyze_temporal_patterns: the argument of that name
    hourly_stats,   \* analyze_temporal_patterns: the argument of that name
    weekday_stats,  \* analyze_temporal_patterns: the argument of that name
    insights,       \* what analyze_temporal_patterns returned, Null before
    args,           \* a synchronous call of another function: its arguments
    returned        \* what that call returned, Null before

admitVars == <<request_times, lockHolder, lockWaiters, pc, now, admitted>>

fetchVars == <<fpc, attempt, fresult, resps, waits, gets, fadm, fetches>>

wrapVars == <<upstream_n, stale, max_matches_arg, wpc, max_matches, step, offset,
              all_match_ids, total_matches_in_year, match_ids, di, matches,
              challenge_analysis, outcome, requests, pages_received, failed>>

callVars == <<args, returned>>

anaVars == <<puuid, stats, results, monthly_stats, hourly_stats,
             weekday_stats, insights, callVars>>

vars == <<clock, request_times, lockHolder, lockWaiters, pc, now, wake,
          admitted, calls, gaps, s3, fpc, attempt, fresult, resps, waits,
          gets, fadm, fetches, faultsLeft, wrapVars, anaVars>>

\* everything but the variables of the analytics calls
clientVars == <<clock, request_times, lockHolder, lockWaiters, pc, now, wake,
                admitted, calls, gaps, s3, fpc, attempt, fresult, resps,
                waits, gets, fadm, fetches, faultsLeft, wrapVars>>

\* ------------------------------------------------------------ helpers

\* [t for t in self._request_times if now - t < window]
Prune(times, n, window) == SelectSeq(times, LAMBDA t : n - t < window)

\* the budget comparison off by one: `>` for `>=`
AtBudgetStrict(times, budget) == Len(times) > budget

\* len(...) >= budget
AtBudget(times, budget) == Len(times) >= budget

\* wait_time = 120 - (now - oldest)
WaitTwoMin(times, n) == TwoMinWindow - (n - times[1])

\* 1.0 - (now - recent[0]) + 0.05
WaitSecond(recent, n) == SecondWindow - (n - recent[1]) + EpsSecond

\* lines 186-193: the one-second check, run from local time n on ledger `times`
SecondCheck(p, times, n) ==
    LET recent == Prune(times, n, SecondWindow) IN
    IF AtBudget(recent, requests_per_second)
    THEN /\ pc' = [pc EXCEPT ![p] = "sleep1s"]
         /\ wake' = [wake EXCEPT ![p] = clock + WaitSecond(recent, n)]
    ELSE /\ pc' = [pc EXCEPT ![p] = "append"]
         /\ UNCHANGED wake

\* ------------------------------------------------------------ admit()

\* the ledger section entered without taking the lock
AcquireNoLock(p) ==
    /\ pc[p] = "acquire"
    /\ pc' = [pc EXCEPT ![p] = "check"]
    /\ lockHolder' = p
    /\ UNCHANGED <<clock, request_times, lockWaiters, now, wake, admitted,
                   calls, gaps, s3, fetchVars, faultsLeft, wrapVars, anaVars>>

\* `async with self._rate_limit_lock`: asyncio.Lock.acquire
Acquire(p) ==
    /\ pc[p] = "acquire"
    /\ IF lockHolder = None /\ lockWaiters = <<>>
       THEN /\ lockHolder' = p
            /\ pc' = [pc EXCEPT ![p] = "check"]
            /\ UNCHANGED lockWaiters
       ELSE /\ lockWaiters' = Append(lockWaiters, p)
            /\ pc' = [pc EXCEPT ![p] = "waitlock"]
            /\ UNCHANGED lockHolder
    /\ UNCHANGED <<clock, request_times, now, wake, admitted, calls, gaps, s3,
                   fetchVars, faultsLeft, wrapVars, anaVars>>

\* the length compared with the budget before anything is pruned
CheckNoPrune(p) ==
    /\ pc[p] = "check"
    /\ LET n == clock
           pruned == request_times IN
       /\ now' = [now EXCEPT ![p] = n]
       /\ request_times' = pruned
       /\ IF AtBudget(pruned, requests_per_2min) /\ WaitTwoMin(pruned, n) > 0
          THEN /\ pc' = [pc EXCEPT ![p] = "sleep2min"]
               /\ wake' = [wake EXCEPT ![p] = clock + WaitTwoMin(pruned, n) + EpsTwoMin]
          ELSE SecondCheck(p, pruned, n)
    /\ UNCHANGED <<clock, lockHolder, lockWaiters, admitted, calls, gaps, s3,
                   fetchVars, faultsLeft, wrapVars, anaVars>>

\* lines 171-190 up to the first await: read the clock, prune, compare with
\* the two budgets
Check(p) ==
    /\ pc[p] = "check"
    /\ LET n == clock
           pruned == Prune(request_times, n, TwoMinWindow) IN
       /\ now' = [now EXCEPT ![p] = n]
       /\ request_times' = pruned
       /\ IF AtBudget(pruned, requests_per_2min) /\ WaitTwoMin(pruned, n) > 0
          THEN /\ pc' = [pc EXCEPT ![p] = "sleep2min"]
               /\ wake' = [wake EXCEPT ![p] = clock + WaitTwoMin(pruned, n) + EpsTwoMin]
          ELSE SecondCheck(p, pruned, n)
    /\ UNCHANGED <<clock, lockHolder, lockWaiters, admitted, calls, gaps, s3,
                   fetchVars, faultsLeft, wrapVars, anaVars>>

\* lines 183-190: back from the two-minute sleep: read the clock again, prune
\* again, then the one-second check
WakeTwoMin(p) ==
    /\ pc[p] = "sleep2min"
    /\ clock >= wake[p]
    /\ LET n == clock
           pruned == Prune(request_times, n, TwoMinWindow) IN
       /\ now' = [now EXCEPT ![p] = n]
       /\ request_times' = pruned
       /\ SecondCheck(p, pruned, n)
    /\ UNCHANGED <<clock, lockHolder, lockWaiters, admitted, calls, gaps, s3,
                   fetchVars, faultsLeft, wrapVars, anaVars>>

\* line 190: back from the one-second sleep
WakeSecond(p) ==
    /\ pc[p] = "sleep1s"
    /\ clock >= wake[p]
    /\ pc' = [pc EXCEPT ![p] = "append"]
    /\ UNCHANGED <<clock, request_times, lockHolder, lockWaiters, now, wake,
                   admitted, calls, gaps, s3, fetchVars, faultsLeft, wrapVars, anaVars>>

\* asyncio.Lock.release: the lock goes to the first waiter, if any
Release(p) ==
    IF lockWaiters = <<>>
    THEN /\ lockHolder' = None
         /\ UNCHANGED lockWaiters
         /\ pc' = [pc EXCEPT ![p] = "done"]
    ELSE /\ lockHolder' = Head(lockWaiters)
         /\ lockWaiters' = Tail(lockWaiters)
         /\ pc' = [pc EXCEPT ![p] = "done", ![Head(lockWaiters)] = "check"]

\* line 193 and the end of the `async with` block; the locals die with the call
Record(p) ==
    /\ pc[p] = "append"
    /\ request_times' = Append(request_times, clock)
    /\ admitted' = Append(admitted, clock)
    /\ Release(p)
    /\ now' = [now EXCEPT ![p] = 0]
    /\ wake' = [wake EXCEPT ![p] = 0]
    /\ fadm' = [fadm EXCEPT ![p] = IF fpc[p] = "none" THEN @ ELSE @ + 1]
    /\ UNCHANGED <<clock, calls, gaps, s3, fpc, attempt, fresult, resps, waits,
                   gets, fetches, faultsLeft, wrapVars, anaVars>>

\* ------------------------------------------------------------ upstream

\* values of the Retry-After header of a 429 response: none, seconds as a
\* decimal string, or an HTTP-date (RFC 9110 allows both forms)
RetryAfterHeaders == {"absent", "1", "3", "Sun, 01 Nov 2026 08:00:00 GMT"}

\* what `await self.client.get(url)` can produce: a response with a status,
\* a Retry-After header and a body, or a transport error (no response)
Responses ==
    {[kind |-> "response", status |-> 200, retry_after |-> "absent", body |-> b] :
        b \in {"json", "not json"}}
    \cup {[kind |-> "response", status |-> 429, retry_after |-> h, body |-> "json"] :
        h \in RetryAfterHeaders}
    \cup {[kind |-> "response", status |-> st, retry_after |-> "absent", body |-> "json"] :
        st \in {404, 500}}
    \cup {[kind |-> "transport", status |-> 0, retry_after |-> "absent", body |-> "none"]}

\* a 2xx response whose body response.json() parses
Success(r) == r.kind = "response" /\ r.status = 200 /\ r.body = "json"

\* int(x) accepts a decimal string
IsDecimal(h) == h \in {"1", "3"}

\* int(x) of a decimal string
IntOf(h) == CASE h = "1" -> 1 [] h = "3" -> 3

\* int(e.response.headers.get('Retry-After', 2)) raises ValueError
RetryAfterRaises(r) == r.retry_after # "absent" /\ ~IsDecimal(r.retry_after)

\* retry_after = int(e.response.headers.get('Retry-After', 2))
RetryAfter(r) ==
    IF r.retry_after = "absent" THEN DefaultRetryAfter ELSE IntOf(r.retry_after)

\* the backoff without its growth: the same wait after every throttled attempt
WaitTimeFlat(a, retry_after) == retry_after

\* wait_time = retry_after if attempt == 0 else retry_after * (2 ** attempt)
WaitTime(a, retry_after) == IF a = 0 THEN retry_after ELSE retry_after * (2 ^ a)

\* ------------------------------------------------------------ side channel

\* lines 14-15: S3_RAW_DATA_BUCKET is not set
NoBucket == [bucket |-> FALSE, up |-> TRUE]

\* the bucket is not set, or it is set and put_object works or raises
SideChannels == {NoBucket, [bucket |-> TRUE, up |-> TRUE],
                 [bucket |-> TRUE, up |-> FALSE]}

\* what _make_request hands to _save_to_s3: a URL with a path of the list of
\* lines 101-122, with another path, or without the host api.riotgames.com;
\* a player's context identifier, None, or a value that is no string; a body
\* that is empty ({} or []) or not
SaveCalls ==
    [url : {"known path", "other path", "other host"},
     context : {"player", "None", "no string"},
     empty : BOOLEAN]

\* _save_to_s3 without its try: what is raised inside reaches the caller
save_to_s3_unguarded(env, call) ==
    IF ~env.bucket \/ call.empty THEN "returned early"
    ELSE IF call.context = "no string" THEN "raised"
    ELSE IF call.url = "other host" THEN "raised"
    ELSE IF call.url = "other path" THEN "no filename"
    ELSE IF env.up THEN "stored" ELSE "raised"

\* _save_to_s3(url, data, context_identifier), lines 89-137: how the call
\* ends: at line 91-92; at line 124-125; after put_object; or in the handler
\* of line 136 after context_identifier.replace raised AttributeError (line
\* 96), url.split(..)[1] raised IndexError (line 97) or put_object raised
save_to_s3(env, call) ==
    IF ~env.bucket \/ call.empty THEN "returned early"
    ELSE IF call.context = "no string" THEN "swallowed"
    ELSE IF call.url = "other host" THEN "swallowed"
    ELSE IF call.url = "other path" THEN "no filename"
    ELSE IF env.up THEN "stored" ELSE "swallowed"

\* a response as the history keeps it: with the end of the _save_to_s3 call
\* that followed it
Logged(r, saved) ==
    [kind |-> r.kind, status |-> r.status, retry_after |-> r.retry_after,
     body |-> r.body, saved |-> saved]

\* ------------------------------------------------------------ fetch

\* a task calls client._make_request(url)
FetchStart(p) ==
    /\ \A q \in Procs : fpc[q] = "none"
    /\ pc[p] = "idle"
    /\ fetches < MaxFetches
    /\ fetches' = fetches + 1
    /\ fpc' = [fpc EXCEPT ![p] = "loop"]
    /\ attempt' = [attempt EXCEPT ![p] = 0]
    /\ fresult' = [fresult EXCEPT ![p] = "none"]
    /\ resps' = [resps EXCEPT ![p] = <<>>]
    /\ waits' = [waits EXCEPT ![p] = <<>>]
    /\ gets' = [gets EXCEPT ![p] = 0]
    /\ fadm' = [fadm EXCEPT ![p] = 0]
    /\ UNCHANGED <<clock, wake, calls, gaps, s3, admitVars, faultsLeft, wrapVars, anaVars>>

\* the retry loop goes on without a new admission
FetchLoopNoAdmit(p) ==
    /\ fpc[p] = "loop"
    /\ IF attempt[p] < max_retries
       THEN /\ fpc' = [fpc EXCEPT ![p] = "admit"]
            /\ pc' = [pc EXCEPT ![p] = IF attempt[p] = 0 THEN "acquire" ELSE "done"]
            /\ UNCHANGED fresult
       ELSE /\ fpc' = [fpc EXCEPT ![p] = "raised"]
            /\ fresult' = [fresult EXCEPT ![p] = "Exception"]
            /\ UNCHANGED pc
    /\ UNCHANGED <<clock, wake, calls, gaps, s3, request_times, lockHolder,
                   lockWaiters, now, admitted, attempt, resps, waits, gets,
                   fadm, fetches, faultsLeft, wrapVars, anaVars>>

\* `for attempt in range(max_retries)` and line 212: the loop body starts by
\* calling _wait_for_rate_limit; line 240 after the last round
FetchLoop(p) ==
    /\ fpc[p] = "loop"
    /\ IF attempt[p] < max_retries
       THEN /\ fpc' = [fpc EXCEPT ![p] = "admit"]
            /\ pc' = [pc EXCEPT ![p] = "acquire"]
            /\ UNCHANGED fresult
       ELSE /\ fpc' = [fpc EXCEPT ![p] = "raised"]
            /\ fresult' = [fresult EXCEPT ![p] = "Exception"]
            /\ UNCHANGED pc
    /\ UNCHANGED <<clock, wake, calls, gaps, s3, request_times, lockHolder,
                   lockWaiters, now, admitted, attempt, resps, waits, gets,
                   fadm, fetches, faultsLeft, wrapVars, anaVars>>

\* line 215: _wait_for_rate_limit has returned; the GET is sent
FetchGet(p) ==
    /\ fpc[p] = "admit"
    /\ pc[p] = "done"
    /\ pc' = [pc EXCEPT ![p] = "idle"]
    /\ fpc' = [fpc EXCEPT ![p] = "get"]
    /\ gets' = [gets EXCEPT ![p] = @ + 1]
    /\ UNCHANGED <<clock, wake, calls, gaps, s3, request_times, lockHolder,
                   lockWaiters, now, admitted, attempt, fresult, resps, waits,
                   fadm, fetches, faultsLeft, wrapVars, anaVars>>

\* the task leaves _make_request with a value or an exception
FetchEnd(p, how, what) ==
    /\ fpc' = [fpc EXCEPT ![p] = how]
    /\ fresult' = [fresult EXCEPT ![p] = what]
    /\ UNCHANGED <<wake, waits>>

\* lines 225-234: the handler of a 429
OnThrottled(p, r) ==
    IF RetryAfterRaises(r)
    THEN FetchEnd(p, "raised", "ValueError")
    ELSE IF attempt[p] < max_retries - 1
         THEN /\ fpc' = [fpc EXCEPT ![p] = "backoff"]
              /\ waits' = [waits EXCEPT ![p] =
                              Append(@, WaitTime(attempt[p], RetryAfter(r)))]
              /\ wake' = [wake EXCEPT ![p] =
                             clock + WaitTime(attempt[p], RetryAfter(r)) * TicksPerSecond]
              /\ UNCHANGED fresult
         ELSE FetchEnd(p, "raised", "HTTPStatusError 429")

\* every error status is retried like a 429
OnResponseRetryAll(p, r) ==
    CASE r.kind = "transport" -> FetchEnd(p, "raised", "TransportError")
      [] r.kind = "response" /\ r.status = 200 /\ r.body = "json" ->
            FetchEnd(p, "returned", "body")
      [] r.kind = "response" /\ r.status = 200 /\ r.body # "json" ->
            FetchEnd(p, "raised", "JSONDecodeError")
      [] r.kind = "response" /\ r.status # 200 -> OnThrottled(p, r)

\* lines 215-237: the outcome of the GET: client.get raises on a transport
\* failure, raise_for_status on a non-2xx status, response.json() on a body
\* that is no JSON; after a parsed body _save_to_s3 is awaited (line 220),
\* and what it raises leaves _make_request
OnResponse(p, r) ==
    CASE r.kind = "transport" -> FetchEnd(p, "raised", "TransportError")
      [] r.kind = "response" /\ r.status = 200 /\ r.body = "json" ->
            IF r.saved = "raised"
            THEN FetchEnd(p, "raised", "Exception in _save_to_s3")
            ELSE FetchEnd(p, "returned", "body")
      [] r.kind = "response" /\ r.status = 200 /\ r.body # "json" ->
            FetchEnd(p, "raised", "JSONDecodeError")
      [] r.kind = "response" /\ r.status = 429 -> OnThrottled(p, r)
      [] r.kind = "response" /\ r.status \notin {200, 429} ->
            FetchEnd(p, "raised", "HTTPStatusError")

\* the GET completes
FetchRespond(p) ==
    /\ fpc[p] = "get"
    /\ \E r \in Responses :
          \E saved \in IF Success(r)
                       THEN {save_to_s3(s3, call) : call \in SaveCalls}
                       ELSE {"not called"} :
              /\ Success(r) \/ faultsLeft > 0
              /\ faultsLeft' = IF Success(r) THEN faultsLeft ELSE faultsLeft - 1
              /\ resps' = [resps EXCEPT ![p] = Append(@, Logged(r, saved))]
              /\ OnResponse(p, Logged(r, saved))
    /\ UNCHANGED <<clock, calls, gaps, s3, admitVars, attempt, gets, fadm, fetches,
                   wrapVars, anaVars>>

\* lines 231-232: back from the backoff sleep; `continue`
FetchWake(p) ==
    /\ fpc[p] = "backoff"
    /\ clock >= wake[p]
    /\ fpc' = [fpc EXCEPT ![p] = "loop"]
    /\ attempt' = [attempt EXCEPT ![p] = @ + 1]
    /\ wake' = [wake EXCEPT ![p] = 0]
    /\ UNCHANGED <<clock, calls, gaps, s3, admitVars, fresult, resps, waits, gets,
                   fadm, fetches, faultsLeft, wrapVars, anaVars>>

\* the caller of _make_request takes the value or the exception; the locals
\* of the call are gone
FetchReturn(p) ==
    /\ fpc[p] \in {"returned", "raised"}
    /\ fpc' = [fpc EXCEPT ![p] = "none"]
    /\ attempt' = [attempt EXCEPT ![p] = 0]
    /\ fresult' = [fresult EXCEPT ![p] = "none"]
    /\ resps' = [resps EXCEPT ![p] = <<>>]
    /\ waits' = [waits EXCEPT ![p] = <<>>]
    /\ gets' = [gets EXCEPT ![p] = 0]
    /\ fadm' = [fadm EXCEPT ![p] = 0]
    /\ UNCHANGED <<clock, wake, calls, gaps, s3, admitVars, fetches, faultsLeft,
                   wrapVars, anaVars>>

\* ------------------------------------------------------------ callers

\* a task calls client._wait_for_rate_limit(), in a run of at most `most` calls
BeginAdmit(p, most) ==
    /\ pc[p] = "idle"
    /\ fpc[p] = "none"
    /\ calls < most
    /\ pc' = [pc EXCEPT ![p] = "acquire"]
    /\ calls' = calls + 1
    /\ UNCHANGED <<clock, request_times, lockHolder, lockWaiters, now, wake,
                   admitted, gaps, s3, fetchVars, faultsLeft, wrapVars, anaVars>>

CallAdmit(p) == BeginAdmit(p, MaxAdmits)

\* _wait_for_rate_limit returns to its caller
ReturnAdmit(p) ==
    /\ pc[p] = "done"
    /\ fpc[p] = "none"
    /\ pc' = [pc EXCEPT ![p] = "idle"]
    /\ UNCHANGED <<clock, request_times, lockHolder, lockWaiters, now, wake,
                   admitted, calls, gaps, s3, fetchVars, faultsLeft, wrapVars, anaVars>>

\* ------------------------------------------------------------ analytics

\* Python's Optional: None is the empty sequence, a value v is <<v>>
Null == <<>>

Some(v) == <<v>>

\* round(n / d, 2) in hundredths: the nearest hundredth, a tie going to the
\* even one (no quotient met here is a tie that a binary float cannot hold)
Round2(n, d) ==
    LET q == (100 * n) \div d
        r == (100 * n) % d
    IN  IF 2 * r > d \/ (2 * r = d /\ q % 2 = 1) THEN q + 1 ELSE q

\* the quotient cut off after the second decimal
calculate_kda_cut(kills, deaths, assists) ==
    IF deaths = 0 THEN 100 * (kills + assists)
    ELSE (100 * (kills + assists)) \div deaths

\* calculate_kda, lines 8-12, in hundredths: float(kills + assists) when
\* deaths == 0, else round((kills + assists) / deaths, 2)
calculate_kda(kills, deaths, assists) ==
    IF deaths = 0 THEN 100 * (kills + assists)
    ELSE Round2(kills + assists, deaths)

\* a defaultdict in insertion order: a sequence of entries with a key
RECURSIVE IndexOf(_, _, _)
IndexOf(d, key, i) ==
    IF i > Len(d) THEN 0
    ELSE IF d[i].key = key THEN i ELSE IndexOf(d, key, i + 1)

\* the default factories of lines 44-53
NewPeriod(key) ==
    [key |-> key, games |-> 0, wins |-> 0, kills |-> 0, deaths |-> 0,
     assists |-> 0, multikills |-> 0]

\* d[key], which inserts the default at the end when the key is new, then the
\* += of one game
AddGame(d, key, won, kills, deaths, assists, multi) ==
    LET e == IF IndexOf(d, key, 1) = 0 THEN Append(d, NewPeriod(key)) ELSE d
        i == IndexOf(e, key, 1)
    IN  [e EXCEPT ![i] =
            [key |-> key,
             games |-> @.games + 1,
             wins |-> @.wins + (IF won THEN 1 ELSE 0),
             kills |-> @.kills + kills,
             deaths |-> @.deaths + deaths,
             assists |-> @.assists + assists,
             multikills |-> @.multikills + multi]]

\* lines 26-57: the dict `stats` and the locals best_kda and worst_kda (inf
\* is Null) as a call creates them
FreshStats ==
    [total_games |-> 0, wins |-> 0, losses |-> 0,
     total_kills |-> 0, total_deaths |-> 0, total_assists |-> 0,
     total_playtime_minutes |-> 0,
     champions_played |-> <<>>, roles_played |-> <<>>,
     best_game |-> Null, worst_game |-> Null,
     pentakills |-> 0, quadrakills |-> 0, first_bloods |-> 0,
     monthly_stats |-> <<>>, hourly_stats |-> <<>>, weekday_stats |-> <<>>,
     best_kda |-> -100, worst_kda |-> Null]

\* dict.get(field, default)
Get(d, field, default) == IF field \in DOMAIN d THEN d[field] ELSE default

\* lines 71-75: the first participant with the subject's puuid, 0 for None
RECURSIVE FindPlayer(_, _, _)
FindPlayer(parts, id, i) ==
    IF i > Len(parts) THEN 0
    ELSE IF parts[i].puuid = id THEN i ELSE FindPlayer(parts, id, i + 1)

\* lines 152-173: the entry kept for the best and for the worst game
GameEntry(match, pd, kda) ==
    [match_id |-> match.matchId, champion |-> pd.champion, kda |-> kda,
     kills |-> pd.kills, deaths |-> pd.deaths, assists |-> pd.assists,
     win |-> pd.win]

\* a later game replaces the best one also on a tie
BeatsBestOrTies(kda, best) == kda >= best

\* line 150: `if kda > best_kda`
BeatsBest(kda, best) == kda > best

\* line 163: `if kda < worst_kda`, worst_kda being inf at first
BelowWorst(kda, worst) == worst = Null \/ kda < worst[1]

\* lines 80-173: the loop body for a match in which the subject was found
CountPlayer(st, match, pd) ==
    LET kda == calculate_kda(pd.kills, pd.deaths, pd.assists)
        dated == match.month # ""
        quadra == Get(pd, "quadra", 0)
        triple == Get(pd, "triple", 0)
        best == BeatsBest(kda, st.best_kda)
        worst == BelowWorst(kda, st.worst_kda)
    IN  [st EXCEPT
            !.wins = @ + (IF pd.win THEN 1 ELSE 0),
            !.losses = @ + (IF pd.win THEN 0 ELSE 1),
            !.total_kills = @ + pd.kills,
            !.total_deaths = @ + pd.deaths,
            !.total_assists = @ + pd.assists,
            !.total_playtime_minutes = @ + match.duration \div 60,
            !.champions_played = AddGame(@, pd.champion, FALSE, 0, 0, 0, 0),
            !.roles_played = AddGame(@, pd.role, FALSE, 0, 0, 0, 0),
            !.pentakills = @ + pd.penta,
            !.quadrakills = @ + quadra,
            !.first_bloods = @ + (IF Get(pd, "first_blood", FALSE) THEN 1 ELSE 0),
            !.monthly_stats =
                IF dated
                THEN AddGame(@, match.month, pd.win, pd.kills, pd.deaths,
                             pd.assists, pd.penta + quadra + triple)
                ELSE @,
            !.hourly_stats =
                IF dated THEN AddGame(@, match.hour, pd.win, 0, 0, 0, 0) ELSE @,
            !.weekday_stats =
                IF dated THEN AddGame(@, match.weekday, pd.win, 0, 0, 0, 0)
                ELSE @,
            !.best_kda = IF best THEN kda ELSE @,
            !.best_game = IF best THEN Some(GameEntry(match, pd, kda)) ELSE @,
            !.worst_kda = IF worst THEN Some(kda) ELSE @,
            !.worst_game = IF worst THEN Some(GameEntry(match, pd, kda)) ELSE @]

\* lines 59-78: one round of `for match in matches`: a match without `info`
\* is skipped; total_games is counted; a match without the subject is left
CountMatch(st, match, id) ==
    IF ~match.info THEN st
    ELSE LET counted == [st EXCEPT !.total_games = @ + 1]
             i == FindPlayer(match.participants, id, 1)
         IN  IF i = 0 THEN counted
             ELSE CountPlayer(counted, match, match.participants[i])

\* lines 59-173: the loop over the first k matches
RECURSIVE CountMatches(_, _, _, _)
CountMatches(st, ms, id, k) ==
    IF k = 0 THEN st
    ELSE CHOOSE after \in {CountMatch(before, ms[k], id) :
                              before \in {CountMatches(st, ms, id, k - 1)}} :
             TRUE

\* line 258-262 and 357-358: most_active_month.split("-")[1] looked up in
\* month_names
MonthName(key) ==
    CASE key = "2025-01" -> "Enero"
      [] key = "2025-02" -> "Febrero"
      [] key = "2025-03" -> "Marzo"
      [] OTHER -> key

\* lines 323-326: weekday_names
WeekdayName(day) ==
    CASE day = 0 -> "Lunes"
      [] day = 1 -> "Martes"
      [] day = 2 -> "Miercoles"
      [] day = 3 -> "Jueves"
      [] day = 4 -> "Viernes"
      [] day = 5 -> "Sabado"
      [] day = 6 -> "Domingo"

\* the loops of lines 267-270, 275-279, 284-289, 294-299, 304-307 and
\* 333-347: over the periods in dict order, with the running maximum `best`
\* (a quotient num / den, 0 at first) and the key that holds it (idx, 0 for
\* None); a period counts if it is eligible and strictly above the maximum
RECURSIVE ScanMax(_, _, _, _)
ScanMax(scores, i, best, idx) ==
    IF i > Len(scores) THEN [idx |-> idx, num |-> best.num, den |-> best.den]
    ELSE IF scores[i].ok /\ scores[i].num * best.den > best.num * scores[i].den
         THEN ScanMax(scores, i + 1, scores[i], i)
         ELSE ScanMax(scores, i + 1, best, idx)

Zero == [ok |-> TRUE, num |-> 0, den |-> 1]

\* a period needs this many games for a win-rate or KDA superlative
MinGames == 5

\* line 285, 295, 343: `if data["games"] >= 5` with every game counting
EligibleAny(games) == games >= 0

\* line 285, 295, 343: `if data["games"] >= 5`
Eligible(games) == games >= MinGames

\* the games of the hours lo .. hi - 1, lines 310-313
GamesInHours(hourly, lo, hi) ==
    LET RECURSIVE Sum(_)
        Sum(i) == IF i = 0 THEN 0
                  ELSE Sum(i - 1) + (IF hourly[i].key >= lo /\ hourly[i].key < hi
                                     THEN hourly[i].games ELSE 0)
    IN  Sum(Len(hourly))

\* lines 315-320: max() of the four buckets by games, the first of the
\* largest
FavoriteTime(morning, afternoon, evening, night) ==
    IF morning >= afternoon /\ morning >= evening /\ morning >= night
    THEN "manana"
    ELSE IF afternoon >= evening /\ afternoon >= night THEN "tarde"
         ELSE IF evening >= night THEN "noche" ELSE "madrugada"

\* analyze_temporal_patterns, lines 242-409
analyze_temporal_patterns(monthly, hourly, weekdays) ==
    LET active == ScanMax([i \in 1..Len(monthly) |->
                      [ok |-> TRUE, num |-> monthly[i].games, den |-> 1]],
                      1, Zero, 0)
        multi == ScanMax([i \in 1..Len(monthly) |->
                      [ok |-> TRUE, num |-> monthly[i].multikills,
                       den |-> 1]], 1, Zero, 0)
        wr == ScanMax([i \in 1..Len(monthly) |->
                      IF Eligible(monthly[i].games)
                      THEN [ok |-> TRUE, num |-> 100 * monthly[i].wins,
                            den |-> monthly[i].games]
                      ELSE [ok |-> FALSE, num |-> 0, den |-> 1]], 1, Zero, 0)
        kda == ScanMax([i \in 1..Len(monthly) |->
                      [ok |-> Eligible(monthly[i].games),
                       num |-> monthly[i].kills + monthly[i].assists,
                       den |-> IF monthly[i].deaths > 1
                               THEN monthly[i].deaths ELSE 1]],
                      1, Zero, 0)
        peak == ScanMax([i \in 1..Len(hourly) |->
                      [ok |-> TRUE, num |-> hourly[i].games, den |-> 1]],
                      1, Zero, 0)
        fav == ScanMax([i \in 1..Len(weekdays) |->
                      [ok |-> TRUE, num |-> weekdays[i].games, den |-> 1]],
                      1, Zero, 0)
        wwr == ScanMax([i \in 1..Len(weekdays) |->
                      IF Eligible(weekdays[i].games)
                      THEN [ok |-> TRUE, num |-> 100 * weekdays[i].wins,
                            den |-> weekdays[i].games]
                      ELSE [ok |-> FALSE, num |-> 0, den |-> 1]], 1, Zero, 0)
        morning == GamesInHours(hourly, 6, 12)
        afternoon == GamesInHours(hourly, 12, 18)
        evening == GamesInHours(hourly, 18, 24)
        night == GamesInHours(hourly, 0, 6)
    IN  [most_active_month |->
            Some([month |-> IF active.idx = 0 THEN Null
                            ELSE Some(MonthName(monthly[active.idx].key)),
                  games |-> active.num]),
         best_multikill_month |->
            IF multi.idx = 0 THEN Null
            ELSE Some([month |-> MonthName(monthly[multi.idx].key),
                       key |-> monthly[multi.idx].key,
                       total_multikills |-> multi.num]),
         best_winrate_month |->
            IF wr.idx = 0 THEN Null
            ELSE Some([month |-> MonthName(monthly[wr.idx].key),
                       key |-> monthly[wr.idx].key,
                       winrate |-> Round2(wr.num, wr.den)]),
         best_kda_month |->
            IF kda.idx = 0 THEN Null
            ELSE Some([month |-> MonthName(monthly[kda.idx].key),
                       key |-> monthly[kda.idx].key,
                       kda |-> Round2(kda.num, kda.den)]),
         peak_hour |->
            IF peak.idx = 0 THEN Null ELSE Some(hourly[peak.idx].key),
         favorite_time_of_day |->
            Some(FavoriteTime(morning, afternoon, evening, night)),
         favorite_weekday |->
            IF fav.idx = 0 THEN Null
            ELSE Some(WeekdayName(weekdays[fav.idx].key)),
         favorite_weekday_games |-> fav.num,
         best_winrate_weekday |->
            IF wwr.idx = 0 THEN Null
            ELSE Some([day |-> WeekdayName(weekdays[wwr.idx].key),
                       key |-> weekdays[wwr.idx].key,
                       winrate |-> Round2(wwr.num, wwr.den)])]

\* Counter.most_common(): the entries by falling count, equal counts in
\* insertion order, as [key, games]
RECURSIVE MostCommon(_)
MostCommon(d) ==
    IF d = <<>> THEN <<>>
    ELSE LET top == CHOOSE i \in 1..Len(d) :
                        /\ \A j \in 1..Len(d) : d[j].games <= d[i].games
                        /\ \A j \in 1..(i - 1) : d[j].games < d[i].games
             rest == [j \in 1..(Len(d) - 1) |-> IF j < top THEN d[j] ELSE d[j + 1]]
         IN  <<[key |-> d[top].key, games |-> d[top].games]>> \o MostCommon(rest)

\* lines 175-239: the averages, the temporal summary, and the dict returned
\* (its fields that later claims do not read are left out)
Finalize(st) ==
    [total_games |-> st.total_games,
     wins |-> st.wins,
     losses |-> st.losses,
     winrate |-> IF st.total_games > 0
                 THEN Round2(100 * st.wins, st.total_games) ELSE 0,
     total_kills |-> st.total_kills,
     total_deaths |-> st.total_deaths,
     total_assists |-> st.total_assists,
     avg_kda |-> IF st.total_games > 0
                 THEN calculate_kda(st.total_kills, st.total_deaths,
                                    st.total_assists)
                 ELSE 0,
     total_playtime_minutes |-> st.total_playtime_minutes,
     pentakills |-> st.pentakills,
     quadrakills |-> st.quadrakills,
     first_bloods |-> st.first_bloods,
     best_game |-> st.best_game,
     worst_game |-> st.worst_game,
     top_champions |-> MostCommon(st.champions_played),
     top_roles |-> MostCommon(st.roles_played),
     temporal_insights |->
        IF st.monthly_stats # <<>>
        THEN Some(analyze_temporal_patterns(st.monthly_stats, st.hourly_stats,
                                            st.weekday_stats))
        ELSE Null]

\* analyze_match_history(matches, puuid), lines 15-239
analyze_match_history(ms, id) ==
    CHOOSE result \in {Finalize(st) :
                          st \in {CountMatches(FreshStats, ms, id, Len(ms))}} :
        TRUE

\* one line of the insights: the rule that wrote it and the values in its text
Line(rule, values) == [rule |-> rule, args |-> values]

\* `if guard: insights.append(line)`
LineIf(guard, line) == IF guard THEN <<line>> ELSE <<>>

\* the quadrakill line comes before the pentakill line is looked at
MultikillLineQuadraFirst(st) ==
    IF st.quadrakills > 0 THEN <<Line("quadrakills", <<st.quadrakills>>)>>
    ELSE LineIf(st.pentakills > 0, Line("pentakills", <<st.pentakills>>))

\* lines 471-474: the pentakill line, else the quadrakill line
MultikillLine(st) ==
    IF st.pentakills > 0 THEN <<Line("pentakills", <<st.pentakills>>)>>
    ELSE LineIf(st.quadrakills > 0, Line("quadrakills", <<st.quadrakills>>))

\* lines 431-438: the note on the matches played and analysed
CoverageLine(total, analyzed) ==
    IF total # Null /\ analyzed # Null
    THEN IF total[1] = analyzed[1]
         THEN <<Line("coverage", <<"all", total[1]>>)>>
         ELSE <<Line("coverage", <<"first", total[1], analyzed[1]>>)>>
    ELSE <<>>

\* lines 452-457: the win rate, a percentage in hundredths
WinrateLine(st) ==
    IF st.winrate >= 5500 THEN Line("winrate", <<"high", st.winrate>>)
    ELSE IF st.winrate >= 5000 THEN Line("winrate", <<"even", st.winrate>>)
         ELSE Line("winrate", <<"low", st.winrate>>)

\* lines 465-468: the KDA, in hundredths
KdaLine(st) ==
    IF st.avg_kda >= 300 THEN <<Line("kda", <<"impressive", st.avg_kda>>)>>
    ELSE LineIf(st.avg_kda >= 200, Line("kda", <<"solid", st.avg_kda>>))

\* lines 489-539: the temporal highlights; `temporal` is {} (Null) or the
\* dict of analyze_temporal_patterns
TemporalLines(temporal) ==
    IF temporal = Null THEN <<>>
    ELSE LET tp == temporal[1]
             active == tp.most_active_month
             multi == tp.best_multikill_month
             wrm == tp.best_winrate_month
             fav == tp.favorite_time_of_day
             day == tp.favorite_weekday
             wrd == tp.best_winrate_weekday
         IN  LineIf(active # Null /\ active[1].games > 0,
                    Line("most_active_month", <<active[1].games>>))
             \o LineIf(multi # Null /\ multi[1].total_multikills > 0,
                       Line("best_multikill_month", <<multi[1].month>>))
             \o LineIf(wrm # Null /\ wrm[1].winrate >= 5500,
                       Line("best_winrate_month", <<wrm[1].month>>))
             \o LineIf(fav # Null, Line("favorite_time_of_day", fav))
             \o LineIf(day # Null /\ tp.favorite_weekday_games > 0,
                       Line("favorite_weekday", day))
             \o LineIf(wrd # Null /\ wrd[1].winrate >= 5500,
                       Line("best_winrate_weekday", <<wrd[1].day>>))

\* generate_wrapped_insights(stats, total_matches_in_year, matches_analyzed),
\* lines 428-541: the lines in the order of their rules
generate_wrapped_insights(st, total, analyzed) ==
    CoverageLine(total, analyzed)
    \o (IF st.total_games > 0
        THEN LineIf(total = Null, Line("total_games", <<st.total_games>>))
             \o LineIf(st.total_playtime_minutes >= 6000,
                       Line("hours", <<st.total_playtime_minutes \div 60>>))
             \o <<WinrateLine(st)>>
             \o LineIf(st.top_champions # <<>>,
                       Line("main_champion",
                            IF st.top_champions # <<>>
                            THEN <<st.top_champions[1].key>> ELSE <<>>))
             \o KdaLine(st)
             \o MultikillLine(st)
             \o LineIf(st.first_bloods >= 10,
                       Line("first_bloods", <<st.first_bloods>>))
             \o LineIf(st.best_game # Null,
                       Line("best_game",
                            IF st.best_game # Null
                            THEN <<st.best_game[1].kda>> ELSE <<>>))
             \o TemporalLines(st.temporal_insights)
        ELSE <<>>)

\* a string as the sequence of its characters; str.split(sep): the parts
\* between the separators, from position i on, `part` being the one begun
RECURSIVE Split(_, _, _, _)
Split(s, sep, i, part) ==
    IF i > Len(s) THEN <<part>>
    ELSE IF s[i] = sep THEN <<part>> \o Split(s, sep, i + 1, <<>>)
         ELSE Split(s, sep, i + 1, Append(part, s[i]))

Digits == <<"0", "1", "2", "3", "4", "5", "6", "7", "8", "9">>

\* the value of a decimal digit, -1 for another character
DigitValue(c) ==
    IF \E d \in 1..Len(Digits) : Digits[d] = c
    THEN (CHOOSE d \in 1..Len(Digits) : Digits[d] = c) - 1
    ELSE -1

\* int(s) raises ValueError: s is empty or holds a character that is no digit
\* (of the characters of the IDs met here, int() accepts the digits only)
IntRaises(s) == s = <<>> \/ \E i \in 1..Len(s) : DigitValue(s[i]) < 0

\* int(s) of a string of digits
RECURSIVE ParseInt(_, _)
ParseInt(s, n) ==
    IF n = 0 THEN 0 ELSE 10 * ParseInt(s, n - 1) + DigitValue(s[n])

\* line 555-556: `if year is None: year = 2025`
DefaultYear == 2025

\* the time unit of the timestamps in the match IDs: this many to a year
UnitsPerYear == 10

\* the epoch
EpochYear == 1970

\* datetime(year, 1, 1).timestamp()
YearStart(y) == (y - EpochYear) * UnitsPerYear

\* lines 565-576: one round of the loop: is match_id appended to `filtered`?
KeepsMatch(match_id, y) ==
    LET parts == Split(match_id, "_", 1, <<>>)
    IN  IF Len(parts) >= 2
        THEN IF IntRaises(parts[2]) THEN TRUE
             ELSE LET timestamp_ms == ParseInt(parts[2], Len(parts[2])) * 1000
                  IN  /\ YearStart(y) * 1000 <= timestamp_ms
                      /\ timestamp_ms < YearStart(y + 1) * 1000
        ELSE FALSE

\* filter_matches_by_year(match_ids, year), lines 544-578
filter_matches_by_year(match_ids_arg, year) ==
    LET y == IF year = Null THEN DefaultYear ELSE year[1]
    IN  SelectSeq(match_ids_arg, LAMBDA match_id : KeepsMatch(match_id, y))

\* ------------------------------------------------------------ the report

Min(a, b) == IF a < b THEN a ELSE b

Max(a, b) == IF a > b THEN a ELSE b

\* the match IDs the upstream holds in the time window, newest first
UpstreamIds == [i \in 1..upstream_n |-> i]

\* the list the upstream pages through: the matches of the window, and after
\* them, when it does not honour startTime and endTime, `stale` older ones
Served == [i \in 1..(upstream_n + stale) |-> i]

\* the match was played in the window [start_time, end_time)
InPeriod(id) == id <= upstream_n

\* get_match_history(puuid, count, start, start_time, end_time): the
\* upstream's answer to .../ids?start={start}&count={count}&startTime=..
PageBody(start, count) ==
    SubSeq(Served, start + 1, Min(start + count, Len(Served)))

\* line 801: puuid = account["puuid"], the subject of the report
AccountPuuid == 1

\* get_match_details(match_id): the body the upstream holds for a match: the
\* subject plays in every match, wins the odd ones, and has a quadrakill in
\* every third
Detail(id) ==
    [matchId |-> id, info |-> TRUE,
     month |-> IF id % 2 = 1 THEN "2025-01" ELSE "2025-02",
     weekday |-> id % 7, hour |-> (5 * id) % 24, duration |-> 1800,
     participants |->
        <<[puuid |-> AccountPuuid + 1, win |-> id % 2 = 0, kills |-> 1,
           deaths |-> 3, assists |-> 0, champion |-> "Garen", role |-> "TOP",
           penta |-> 0],
          [puuid |-> AccountPuuid, win |-> id % 2 = 1, kills |-> 2 + (id % 3),
           deaths |-> id % 2, assists |-> 4,
           champion |-> IF id % 3 = 0 THEN "Zed" ELSE "Ahri",
           role |-> "MIDDLE", penta |-> 0,
           quadra |-> IF id % 3 = 0 THEN 1 ELSE 0,
           first_blood |-> id % 2 = 0]>>]

\* what a 200 body of get_player_challenges can be: one with progress, one
\* without the key "challenges", one whose entries analyze_challenges cannot
\* read (a null percentile among numbers makes sorted() raise TypeError)
ChallengeBodies == {"rich", "plain", "malformed"}

\* lines 877-882: challenge_analysis after the call: None when the fetch or
\* analyze_challenges raised
ChallengeAnalysis(fetched, body) ==
    IF fetched /\ body # "malformed" THEN "analysis" ELSE "null"

\* lines 875-882: challenge_insights: [] at first, the lines of
\* generate_challenge_insights when nothing raised
ChallengeInsights(fetched, body) ==
    IF fetched /\ body = "rich" THEN <<Line("challenge_points", <<>>)>> ELSE <<>>

\* pagination that goes on until a page comes back empty
MorePagesUntilEmpty(batch) == batch # <<>>

\* lines 834-844: the pagination loop goes round again: neither `if not
\* batch: break` nor `if len(batch) < batch_size: break` was taken
MorePages(batch) == batch # <<>> /\ Len(batch) >= batch_size

\* the whole list goes to the detail loop
PrefixAll(ids, k) == ids

\* all_match_ids[:max_matches]: a Python slice counts a negative bound from
\* the end of the list
Prefix(ids, k) ==
    IF k >= 0
    THEN SubSeq(ids, 1, Min(k, Len(ids)))
    ELSE SubSeq(ids, 1, Max(Len(ids) + k, 0))

\* a detail fetch that raised leaves a placeholder in the list
OnDetailPlaceholder(ms, id, ok) ==
    Append(ms, IF ok THEN Detail(id) ELSE [matchId |-> 0])

\* lines 855-860: matches.append(match_detail), or `continue` when the
\* fetch raised
OnDetail(ms, id, ok) == IF ok THEN Append(ms, Detail(id)) ELSE ms

\* the request of one ID page, and of one match's detail
PageRequest(start) == [kind |-> "ids", start |-> start, count |-> batch_size]

DetailRequest(id) == [kind |-> "detail", start |-> id, count |-> 1]

\* the request of get_player_challenges
ChallengesRequest == [kind |-> "challenges", start |-> 0, count |-> 1]

\* the task enters client._make_request from one of the client's methods
BeginFetch(p) ==
    /\ fetches' = fetches + 1
    /\ fpc' = [fpc EXCEPT ![p] = "loop"]
    /\ attempt' = [attempt EXCEPT ![p] = 0]
    /\ fresult' = [fresult EXCEPT ![p] = "none"]
    /\ resps' = [resps EXCEPT ![p] = <<>>]
    /\ waits' = [waits EXCEPT ![p] = <<>>]
    /\ gets' = [gets EXCEPT ![p] = 0]
    /\ fadm' = [fadm EXCEPT ![p] = 0]

\* the task is in no fetch any more
ClearFetch(p) ==
    /\ fpc' = [fpc EXCEPT ![p] = "none"]
    /\ attempt' = [attempt EXCEPT ![p] = 0]
    /\ fresult' = [fresult EXCEPT ![p] = "none"]
    /\ resps' = [resps EXCEPT ![p] = <<>>]
    /\ waits' = [waits EXCEPT ![p] = <<>>]
    /\ gets' = [gets EXCEPT ![p] = 0]
    /\ fadm' = [fadm EXCEPT ![p] = 0]
    /\ UNCHANGED fetches

\* a floor of 2 instead of 1
ClampMatchesTwo(m) == Max(m, 2)

\* line 796: max_matches = max(max_matches, 1)
ClampMatches(m) == Max(m, 1)

\* details are fetched page by page: after a full page its details, then the
\* next page
NextStageInterleaved(stage, batch, i, ids) ==
    IF stage = "pages"
    THEN IF ids = <<>> THEN "challenges" ELSE "details"
    ELSE IF i < Len(ids) THEN "details"
         ELSE IF offset > 0 /\ offset = pages_received * batch_size
              THEN "pages" ELSE "challenges"

\* what get_player_wrapped does after a page (lines 834-854) and after one
\* round of the detail loop (lines 854-873)
NextStage(stage, batch, i, ids) ==
    IF stage = "pages"
    THEN IF MorePages(batch) THEN "pages"
         ELSE IF ids = <<>> THEN "challenges" ELSE "details"
    ELSE IF i < Len(ids) THEN "details" ELSE "challenges"

\* the task issues the first request of a stage, or its next one
Goto(p, stage, start, ids, i) ==
    /\ wpc' = stage
    /\ di' = IF stage = "details" THEN i ELSE 0
    /\ requests' =
          CASE stage = "pages" -> Append(requests, PageRequest(start))
            [] stage = "details" -> Append(requests, DetailRequest(ids[i]))
            [] stage = "challenges" -> Append(requests, ChallengesRequest)
            [] OTHER -> requests
    /\ BeginFetch(p)

\* the sizes of the upstream's ID list: around each multiple of batch_size
UpstreamSizes ==
    {n \in {k * batch_size + d : k \in 0..MaxPages, d \in 0..1} :
        n <= MaxPages * batch_size}

\* the values of the argument max_matches
MatchesArgs == -1..MaxMatchesArg

\* lines 738-800: the request for get_player_wrapped is taken by the first
\* free task, which runs up to the first profile call
WStart(p) ==
    /\ wpc = "none"
    /\ pc[p] = "idle" /\ fpc[p] = "none"
    /\ \A q \in Procs : q < p => pc[q] # "idle"
    /\ max_matches' = ClampMatches(max_matches_arg)
    /\ wpc' = "profile"
    /\ step' = 1
    /\ BeginFetch(p)
    /\ UNCHANGED <<upstream_n, stale, max_matches_arg>>
    /\ UNCHANGED <<clock, wake, calls, gaps, s3, admitVars, faultsLeft, offset,
                   all_match_ids, total_matches_in_year, match_ids, di,
                   matches, challenge_analysis, outcome, requests,
                   pages_received, failed, anaVars>>

\* a failure before the details is swallowed: a report without matches is
\* returned
WErrorPartial(p) ==
    /\ wpc' = "done"
    /\ outcome' = [kind |-> "report",
                   total_matches_in_year |-> Len(all_match_ids),
                   matches_analyzed |-> 0,
                   challenges |-> "null"]
    /\ ClearFetch(p)
    /\ UNCHANGED <<upstream_n, stale, max_matches_arg, max_matches, step, offset,
                   all_match_ids, total_matches_in_year, match_ids, di,
                   matches, challenge_analysis, requests, pages_received,
                   failed>>

\* the exception leaves get_player_wrapped
WErrorEscapes(p) ==
    /\ wpc' = "done"
    /\ outcome' = [kind |-> "raised", error |-> fresult[p]]
    /\ ClearFetch(p)
    /\ UNCHANGED <<upstream_n, stale, max_matches_arg, max_matches, step, offset,
                   all_match_ids, total_matches_in_year, match_ids, di,
                   matches, challenge_analysis, requests, pages_received,
                   failed>>

\* lines 910-915: an exception reached the outer handler; the error object is
\* returned: str(e), a fixed message and a hint
WError(p) ==
    /\ wpc' = "done"
    /\ outcome' = [kind |-> "error",
                   error |-> fresult[p],
                   message |-> "Error al generar Wrapped del jugador",
                   details |-> "Asegurate de que el jugador existe"]
    /\ ClearFetch(p)
    /\ UNCHANGED <<upstream_n, stale, max_matches_arg, max_matches, step, offset,
                   all_match_ids, total_matches_in_year, match_ids, di,
                   matches, challenge_analysis, requests, pages_received,
                   failed>>

\* lines 800-808 and 819-832: a profile call has ended; an exception goes to
\* the outer handler, a value leads to the next call; after the fifth comes
\* the first ID page
WProfile(p) ==
    /\ wpc = "profile"
    /\ fpc[p] \in {"returned", "raised"}
    /\ IF fpc[p] = "raised"
       THEN WError(p)
       ELSE /\ IF step < ProfileCalls
               THEN /\ step' = step + 1
                    /\ BeginFetch(p)
                    /\ UNCHANGED <<wpc, di, requests>>
               ELSE /\ step' = 0
                    /\ Goto(p, "pages", 0, <<>>, 0)
            /\ offset' = 0
            /\ all_match_ids' = <<>>
            /\ UNCHANGED <<upstream_n, stale, max_matches_arg, max_matches,
                           total_matches_in_year, match_ids, matches,
                           challenge_analysis, outcome, pages_received,
                           failed>>
    /\ UNCHANGED <<clock, wake, calls, gaps, s3, admitVars, faultsLeft, anaVars>>

\* lines 824-854: get_match_history has ended; an exception goes to the outer
\* handler; a page is appended and the loop goes on or ends, and after the
\* loop come the total, the slice and the first detail call
WPage(p) ==
    /\ wpc = "pages"
    /\ fpc[p] \in {"returned", "raised"}
    /\ IF fpc[p] = "raised"
       THEN WError(p)
       ELSE LET batch == PageBody(offset, batch_size)
                all == all_match_ids \o batch
                ids == Prefix(all, max_matches)
                stage == NextStage("pages", batch, 0, ids)
            IN  /\ pages_received' = pages_received + 1
                /\ all_match_ids' = all
                /\ offset' = offset + Len(batch)
                /\ IF stage = "pages"
                   THEN UNCHANGED <<total_matches_in_year, match_ids>>
                   ELSE /\ total_matches_in_year' = Len(all)
                        /\ match_ids' = ids
                /\ Goto(p, stage, offset + Len(batch), ids, 1)
                /\ UNCHANGED <<upstream_n, stale, max_matches_arg, max_matches, step,
                               matches, challenge_analysis, outcome, failed>>
    /\ UNCHANGED <<clock, wake, calls, gaps, s3, admitVars, faultsLeft, anaVars>>

\* lines 854-875: get_match_details has ended, with a value or an exception;
\* the loop goes on, and after it comes the challenges call
WDetail(p) ==
    /\ wpc = "details"
    /\ fpc[p] \in {"returned", "raised"}
    /\ LET ok == fpc[p] = "returned"
           stage == NextStage("details", <<>>, di, match_ids)
       IN  /\ matches' = OnDetail(matches, match_ids[di], ok)
           /\ failed' = IF ok THEN failed ELSE failed \cup {di}
           /\ Goto(p, stage, offset, match_ids, di + 1)
    /\ UNCHANGED <<upstream_n, stale, max_matches_arg, max_matches, step, offset,
                   all_match_ids, total_matches_in_year, match_ids,
                   challenge_analysis, outcome, pages_received>>
    /\ UNCHANGED <<clock, wake, calls, gaps, s3, admitVars, faultsLeft, anaVars>>

\* lines 866-870 and 885-906: the insights of the matches, then those of the
\* challenges, and the dict `wrapped`
Wrapped(statistics, analysis, challenge_insights) ==
    [kind |-> "report",
     statistics |-> statistics,
     challenges |-> analysis,
     insights |->
        generate_wrapped_insights(statistics, Some(total_matches_in_year),
                                  Some(Len(matches)))
        \o challenge_insights,
     total_matches_in_year |-> total_matches_in_year,
     matches_analyzed |-> Len(matches)]

\* a failure in the challenges section reaches the outer handler
WReportOrAbort(statistics, fetched, body) ==
    /\ challenge_analysis' = ChallengeAnalysis(fetched, body)
    /\ outcome' =
          IF fetched /\ body # "malformed"
          THEN Wrapped(statistics, "analysis", ChallengeInsights(fetched, body))
          ELSE [kind |-> "error", error |-> "Exception",
                message |-> "Error al generar Wrapped del jugador",
                details |-> "Asegurate de que el jugador existe"]

\* a player without matches is reported as an error
WReportNeedsMatches(statistics, fetched, body) ==
    /\ challenge_analysis' = ChallengeAnalysis(fetched, body)
    /\ outcome' =
          IF matches # <<>>
          THEN Wrapped(statistics, challenge_analysis',
                       ChallengeInsights(fetched, body))
          ELSE [kind |-> "error", error |-> "no matches",
                message |-> "Error al generar Wrapped del jugador",
                details |-> "Asegurate de que el jugador existe"]

\* lines 873-908: the challenges section, in its own try, and the report
WReport(statistics, fetched, body) ==
    /\ challenge_analysis' = ChallengeAnalysis(fetched, body)
    /\ outcome' = Wrapped(statistics, challenge_analysis',
                          ChallengeInsights(fetched, body))

\* lines 863-908: get_player_challenges has ended, with a value or an
\* exception; the statistics and the insights of the matches are computed
\* (lines 863-870, no await between them and the call), the challenges are
\* analysed, and the report is built and returned
WChallenges(p) ==
    /\ wpc = "challenges"
    /\ fpc[p] \in {"returned", "raised"}
    /\ \E body \in ChallengeBodies,
          statistics \in {analyze_match_history(matches, AccountPuuid)} :
          WReport(statistics, fpc[p] = "returned", body)
    /\ wpc' = "done"
    /\ ClearFetch(p)
    /\ UNCHANGED <<upstream_n, stale, max_matches_arg, max_matches, step, offset,
                   all_match_ids, total_matches_in_year, match_ids, di,
                   matches, requests, pages_received, failed>>
    /\ UNCHANGED <<clock, wake, calls, gaps, s3, admitVars, faultsLeft, anaVars>>

\* ------------------------------------------------------------ the clock

Asleep(p) == pc[p] \in {"sleep2min", "sleep1s"} \/ fpc[p] = "backoff"

Sleepers == {p \in Procs : Asleep(p) /\ wake[p] > clock}

MinWake == CHOOSE w \in {wake[p] : p \in Sleepers} :
               \A q \in Sleepers : w <= wake[q]

\* time passes until the next sleeper's deadline
TimePasses ==
    /\ Sleepers # {}
    /\ clock' = MinWake
    /\ UNCHANGED <<request_times, lockHolder, lockWaiters, pc, now, wake,
                   admitted, calls, gaps, s3, fetchVars, faultsLeft, wrapVars, anaVars>>

\* a budget is used up: the next admit() would have to wait
Saturated ==
    \/ AtBudget(Prune(request_times, clock, SecondWindow), requests_per_second)
    \/ AtBudget(Prune(request_times, clock, TwoMinWindow), requests_per_2min)

\* the callers pause while the client is saturated and no call is under way
IdleGap ==
    /\ \A p \in Procs : pc[p] = "idle"
    /\ Saturated
    /\ gaps < MaxGaps
    /\ \E d \in GapSet : clock' = clock + d
    /\ gaps' = gaps + 1
    /\ UNCHANGED <<request_times, lockHolder, lockWaiters, pc, now, wake,
                   admitted, calls, s3, fetchVars, faultsLeft, wrapVars,
                   anaVars>>

\* ------------------------------------------------------------ specification

\* no get_player_wrapped call is under way
NoReport ==
    /\ upstream_n = 0
    /\ stale = 0
    /\ max_matches_arg = 0
    /\ wpc = "none"
    /\ max_matches = 0
    /\ step = 0
    /\ offset = 0
    /\ all_match_ids = <<>>
    /\ total_matches_in_year = -1
    /\ match_ids = <<>>
    /\ di = 0
    /\ matches = <<>>
    /\ challenge_analysis = "null"
    /\ outcome = [kind |-> "none"]
    /\ requests = <<>>
    /\ pages_received = 0
    /\ failed = {}

\* no call of another function has been made
NoCall ==
    /\ args = Null
    /\ returned = Null

\* no call of the analytics module has been made
NoAnalysis ==
    /\ NoCall
    /\ puuid = 0
    /\ stats = FreshStats
    /\ results = <<>>
    /\ monthly_stats = <<>>
    /\ hourly_stats = <<>>
    /\ weekday_stats = <<>>
    /\ insights = Null

\* the client as RiotAPIClient.__init__ leaves it, and no task under way
NewClient ==
    /\ clock = 0
    /\ request_times = <<>>
    /\ lockHolder = None
    /\ lockWaiters = <<>>
    /\ pc = [p \in Procs |-> "idle"]
    /\ now = [p \in Procs |-> 0]
    /\ wake = [p \in Procs |-> 0]
    /\ admitted = <<>>
    /\ calls = 0
    /\ gaps = 0
    /\ s3 = NoBucket
    /\ fpc = [p \in Procs |-> "none"]
    /\ attempt = [p \in Procs |-> 0]
    /\ fresult = [p \in Procs |-> "none"]
    /\ resps = [p \in Procs |-> <<>>]
    /\ waits = [p \in Procs |-> <<>>]
    /\ gets = [p \in Procs |-> 0]
    /\ fadm = [p \in Procs |-> 0]
    /\ fetches = 0
    /\ faultsLeft = 0

Init ==
    /\ NewClient
    /\ NoReport
    /\ NoAnalysis

Next ==
    \/ \E p \in Procs : CallAdmit(p)
    \/ \E p \in Procs : Acquire(p)
    \/ \E p \in Procs : Check(p)
    \/ \E p \in Procs : WakeTwoMin(p)
    \/ \E p \in Procs : WakeSecond(p)
    \/ \E p \in Procs : Record(p)
    \/ \E p \in Procs : ReturnAdmit(p)
    \/ TimePasses
    \/ IdleGap

Spec == Init /\ [][Next]_vars

\* ------------------------------------------------------------ fetch runs

\* the ledger after requests_per_second - 1 admissions made at time 0
WarmLedger == [i \in 1..(requests_per_second - 1) |-> 0]

\* the ledger after requests_per_2min - 1 admissions made back to back: bursts
\* of requests_per_second, one second and its epsilon apart
BusyLedger ==
    [i \in 1..(requests_per_2min - 1) |->
        ((i - 1) \div requests_per_second) * (SecondWindow + EpsSecond)]

\* the shared client as a fetch finds it: new, or after earlier admissions
ClientStates ==
    { [ledger |-> <<>>, time |-> 0],
      [ledger |-> WarmLedger, time |-> 0],
      [ledger |-> BusyLedger, time |-> BusyLedger[Len(BusyLedger)]] }

InitFetch ==
    /\ \E c \in ClientStates :
          /\ request_times = c.ledger
          /\ admitted = c.ledger
          /\ clock = c.time
    /\ lockHolder = None
    /\ lockWaiters = <<>>
    /\ pc = [p \in Procs |-> "idle"]
    /\ now = [p \in Procs |-> 0]
    /\ wake = [p \in Procs |-> 0]
    /\ calls = 0
    /\ gaps = 0
    /\ s3 \in SideChannels
    /\ fpc = [p \in Procs |-> "none"]
    /\ attempt = [p \in Procs |-> 0]
    /\ fresult = [p \in Procs |-> "none"]
    /\ resps = [p \in Procs |-> <<>>]
    /\ waits = [p \in Procs |-> <<>>]
    /\ gets = [p \in Procs |-> 0]
    /\ fadm = [p \in Procs |-> 0]
    /\ fetches = 0
    /\ faultsLeft = MaxFetches * max_retries
    /\ NoReport
    /\ NoAnalysis

NextFetch ==
    \/ \E p \in Procs : FetchStart(p)
    \/ \E p \in Procs : FetchLoop(p)
    \/ \E p \in Procs : Acquire(p)
    \/ \E p \in Procs : Check(p)
    \/ \E p \in Procs : WakeTwoMin(p)
    \/ \E p \in Procs : WakeSecond(p)
    \/ \E p \in Procs : Record(p)
    \/ \E p \in Procs : FetchGet(p)
    \/ \E p \in Procs : FetchRespond(p)
    \/ \E p \in Procs : FetchWake(p)
    \/ \E p \in Procs : FetchReturn(p)
    \/ TimePasses

SpecFetch == InitFetch /\ [][NextFetch]_vars

\* ------------------------------------------------------------ report runs

\* the ledger of a client that made four bursts of requests_per_second
\* nearly two minutes ago and requests_per_second - 1 requests just now
LoadedLedger ==
    [i \in 1..(requests_per_2min - 1) |->
        IF i <= requests_per_2min - requests_per_second
        THEN ((i - 1) \div requests_per_second) * (SecondWindow + EpsSecond)
        ELSE TwoMinWindow - SecondWindow \div 2]

\* a request for get_player_wrapped has arrived at a client that has served
\* requests before: the player has one of `sizes` matches at the upstream,
\* max_matches is one of `limits`, and the upstream fails at most MaxFaults
\* times
ReportRequest(sizes, limits, older) ==
    /\ request_times = LoadedLedger
    /\ admitted = LoadedLedger
    /\ clock = LoadedLedger[Len(LoadedLedger)]
    /\ lockHolder = None
    /\ lockWaiters = <<>>
    /\ pc = [p \in Procs |-> "idle"]
    /\ now = [p \in Procs |-> 0]
    /\ wake = [p \in Procs |-> 0]
    /\ calls = 0
    /\ gaps = 0
    /\ s3 = NoBucket
    /\ fpc = [p \in Procs |-> "none"]
    /\ attempt = [p \in Procs |-> 0]
    /\ fresult = [p \in Procs |-> "none"]
    /\ resps = [p \in Procs |-> <<>>]
    /\ waits = [p \in Procs |-> <<>>]
    /\ gets = [p \in Procs |-> 0]
    /\ fadm = [p \in Procs |-> 0]
    /\ fetches = 0
    /\ faultsLeft = MaxFaults
    /\ upstream_n \in sizes
    /\ stale \in older
    /\ max_matches_arg \in limits
    /\ wpc = "none"
    /\ max_matches = 0
    /\ step = 0
    /\ offset = 0
    /\ all_match_ids = <<>>
    /\ total_matches_in_year = -1
    /\ match_ids = <<>>
    /\ di = 0
    /\ matches = <<>>
    /\ challenge_analysis = "null"
    /\ outcome = [kind |-> "none"]
    /\ requests = <<>>
    /\ pages_received = 0
    /\ failed = {}
    /\ NoAnalysis

InitWrapped == ReportRequest(UpstreamSizes, MatchesArgs, {0})

NextWrapped ==
    \/ \E p \in Procs : WStart(p)
    \/ \E p \in Procs : WProfile(p)
    \/ \E p \in Procs : WPage(p)
    \/ \E p \in Procs : WDetail(p)
    \/ \E p \in Procs : WChallenges(p)
    \/ \E p \in Procs : FetchLoop(p)
    \/ \E p \in Procs : Acquire(p)
    \/ \E p \in Procs : Check(p)
    \/ \E p \in Procs : WakeTwoMin(p)
    \/ \E p \in Procs : WakeSecond(p)
    \/ \E p \in Procs : Record(p)
    \/ \E p \in Procs : FetchGet(p)
    \/ \E p \in Procs : FetchRespond(p)
    \/ \E p \in Procs : FetchWake(p)
    \/ TimePasses

SpecWrapped == InitWrapped /\ [][NextWrapped]_vars

\* the requests of the runs to the end: no match, one match, a second page
LiveSizes == {n \in UpstreamSizes : n <= batch_size + 1 /\ n # batch_size}

LiveArgs == {-1, MaxMatchesArg}

InitWrappedLive == ReportRequest(LiveSizes, LiveArgs, {0})

\* a request with a time window to an upstream that may ignore the window
InitWindow == ReportRequest(LiveSizes, LiveArgs, 0..MaxStale)

SpecWindow == InitWindow /\ [][NextWrapped]_vars

\* the event loop runs a task that is ready, and the clock goes on
SpecWrappedLive ==
    InitWrappedLive /\ [][NextWrapped]_vars /\ WF_vars(NextWrapped)

\* ------------------------------------------------------------ analytics runs

\* a participant of a match
Participant(id, win, kills, deaths, assists, champion, role, penta) ==
    [puuid |-> id, win |-> win, kills |-> kills, deaths |-> deaths,
     assists |-> assists, champion |-> champion, role |-> role,
     penta |-> penta]

\* match records as get_match_details returns them: with and without the
\* `info` section, dated and undated, with the players 1 and 2, one of them
\* or neither; M1 and M6 have the same KDA for player 1, M2 one that differs
\* from it only beyond the second decimal, M3 no deaths
MatchCatalogue ==
    { [matchId |-> "M1", info |-> TRUE, month |-> "2025-01", weekday |-> 0,
       hour |-> 8, duration |-> 1800,
       participants |->
          <<Participant(1, TRUE, 10, 21, 10, "Ahri", "MIDDLE", 0),
            Participant(2, FALSE, 1, 3, 0, "Garen", "TOP", 0)>>],
      [matchId |-> "M2", info |-> TRUE, month |-> "2025-01", weekday |-> 6,
       hour |-> 20, duration |-> 1500,
       participants |->
          <<Participant(2, TRUE, 2, 0, 1, "Garen", "TOP", 0),
            Participant(1, FALSE, 11, 22, 10, "Zed", "MIDDLE", 1)>>],
      [matchId |-> "M3", info |-> TRUE, month |-> "", weekday |-> 0,
       hour |-> 0, duration |-> 2000,
       participants |->
          <<Participant(1, TRUE, 2, 0, 2, "Ahri", "BOTTOM", 0)>>],
      [matchId |-> "M4", info |-> FALSE, month |-> "", weekday |-> 0,
       hour |-> 0, duration |-> 0, participants |-> <<>>],
      [matchId |-> "M5", info |-> TRUE, month |-> "2025-02", weekday |-> 6,
       hour |-> 3, duration |-> 1200,
       participants |->
          <<Participant(2, TRUE, 1, 1, 1, "Lux", "UTILITY", 0)>>],
      [matchId |-> "M6", info |-> TRUE, month |-> "2025-02", weekday |-> 0,
       hour |-> 14, duration |-> 1900,
       participants |->
          <<Participant(1, FALSE, 10, 21, 10, "Zed", "MIDDLE", 0)>>] }

\* the match lists given to analyze_match_history
MatchLists == UNION {[1..n -> MatchCatalogue] : n \in 0..MaxAnalyzed}

\* the subjects
Subjects == {1, 2}

\* the dict a call keeps from the call before it
StatsAtEntryKept == stats

\* line 26: every call builds its own `stats`
StatsAtEntry == FreshStats

\* analyze_match_history(matches, puuid), lines 15-239: a synchronous call
AnalyzeMatchHistory ==
    /\ Len(results) < MaxCalls
    /\ stats' = CountMatches(StatsAtEntry, matches, puuid, Len(matches))
    /\ results' = Append(results, Finalize(stats'))
    /\ UNCHANGED <<clientVars, puuid, monthly_stats, hourly_stats,
                   weekday_stats, insights, callVars>>

InitAnalyze ==
    /\ NewClient
    /\ upstream_n = 0
    /\ stale = 0
    /\ max_matches_arg = 0
    /\ wpc = "none"
    /\ max_matches = 0
    /\ step = 0
    /\ offset = 0
    /\ all_match_ids = <<>>
    /\ total_matches_in_year = -1
    /\ match_ids = <<>>
    /\ di = 0
    /\ matches \in MatchLists
    /\ challenge_analysis = "null"
    /\ outcome = [kind |-> "none"]
    /\ requests = <<>>
    /\ pages_received = 0
    /\ failed = {}
    /\ puuid \in Subjects
    /\ stats = FreshStats
    /\ results = <<>>
    /\ monthly_stats = <<>>
    /\ hourly_stats = <<>>
    /\ weekday_stats = <<>>
    /\ insights = Null
    /\ NoCall

NextAnalyze == AnalyzeMatchHistory

SpecAnalyze == InitAnalyze /\ [][NextAnalyze]_vars

\* the month keys and the weekday keys of the inputs
AllMonthKeys == <<"2025-01", "2025-02", "2025-03", "2025-04">>

MonthKeys == {AllMonthKeys[i] : i \in 1..MaxPeriods}

WeekdayKeys == 0..(MaxPeriods - 1)

\* what a month may hold: few games with a high win rate, enough games,
\* enough games and no win, no game at all
MonthData ==
    { [key |-> "", games |-> 3, wins |-> 2, kills |-> 9, deaths |-> 3,
       assists |-> 6, multikills |-> 0],
      [key |-> "", games |-> 6, wins |-> 5, kills |-> 12, deaths |-> 6,
       assists |-> 12, multikills |-> 1],
      [key |-> "", games |-> 5, wins |-> 0, kills |-> 5, deaths |-> 10,
       assists |-> 5, multikills |-> 0],
      [key |-> "", games |-> 0, wins |-> 0, kills |-> 0, deaths |-> 0,
       assists |-> 0, multikills |-> 0] }

\* what a weekday may hold
WeekdayData ==
    { [key |-> 0, games |-> 3, wins |-> 3, kills |-> 0, deaths |-> 0,
       assists |-> 0, multikills |-> 0],
      [key |-> 0, games |-> 6, wins |-> 5, kills |-> 0, deaths |-> 0,
       assists |-> 0, multikills |-> 0] }

\* the hourly maps of the inputs
HourlyInputs ==
    { <<>>,
      <<[NewPeriod(8) EXCEPT !.games = 2, !.wins = 1]>>,
      <<[NewPeriod(20) EXCEPT !.games = 1], [NewPeriod(3) EXCEPT !.games = 1]>> }

\* the sequences of distinct keys
KeySeqs(keys) ==
    UNION {{ks \in [1..n -> keys] :
               \A i, j \in 1..n : i # j => ks[i] # ks[j]} :
           n \in 0..MaxPeriods}

\* the dicts with keys from `keys` and values from `data`, in every
\* insertion order
Dicts(keys, data) ==
    UNION {{[i \in 1..Len(ks) |-> [ds[i] EXCEPT !.key = ks[i]]] :
               ds \in [1..Len(ks) -> data]} :
           ks \in KeySeqs(keys)}

\* analyze_temporal_patterns(monthly_stats, hourly_stats, weekday_stats),
\* lines 242-409: a synchronous call
AnalyzeTemporalPatterns ==
    /\ insights = Null
    /\ insights' = Some(analyze_temporal_patterns(monthly_stats, hourly_stats,
                                                  weekday_stats))
    /\ UNCHANGED <<clientVars, puuid, stats, results, monthly_stats,
                   hourly_stats, weekday_stats, callVars>>

InitTemporal ==
    /\ NewClient
    /\ NoReport
    /\ puuid = 0
    /\ stats = FreshStats
    /\ results = <<>>
    /\ monthly_stats \in Dicts(MonthKeys, MonthData)
    /\ hourly_stats \in HourlyInputs
    /\ weekday_stats \in Dicts(WeekdayKeys, WeekdayData)
    /\ insights = Null
    /\ NoCall

NextTemporal == AnalyzeTemporalPatterns

SpecTemporal == InitTemporal /\ [][NextTemporal]_vars

\* ------------------------------------------------------------ filter runs

\* match IDs: with a timestamp of 1971, of 1972 and of 1973, with a third
\* part, with a part after the delimiter that is no number or is empty, with
\* two delimiters in a row, and without any delimiter
IdCatalogue ==
    { <<"L", "A", "_", "1", "2">>,
      <<"L", "A", "_", "2", "0">>,
      <<"L", "A", "_", "3", "1">>,
      <<"L", "A", "_", "1", "9", "_", "x">>,
      <<"L", "A", "_", "1", "x">>,
      <<"L", "A", "_">>,
      <<"L", "A", "_", "_", "1", "2">>,
      <<"L", "A", "1", "2">> }

\* the lists of match IDs given to filter_matches_by_year
IdLists == UNION {[1..n -> IdCatalogue] : n \in 0..MaxIds}

\* the argument year: None, or a year
Years == {Null} \cup {Some(EpochYear + k) : k \in 1..2}

\* filter_matches_by_year(match_ids, year): a synchronous call
FilterMatchesByYear ==
    /\ returned = Null
    /\ returned' = Some(filter_matches_by_year(args[1].match_ids, args[1].year))
    /\ UNCHANGED <<clientVars, puuid, stats, results, monthly_stats,
                   hourly_stats, weekday_stats, insights, args>>

InitFilter ==
    /\ NewClient
    /\ NoReport
    /\ puuid = 0
    /\ stats = FreshStats
    /\ results = <<>>
    /\ monthly_stats = <<>>
    /\ hourly_stats = <<>>
    /\ weekday_stats = <<>>
    /\ insights = Null
    /\ args \in {Some([match_ids |-> l, year |-> y]) : l \in IdLists, y \in Years}
    /\ returned = Null

NextFilter == FilterMatchesByYear

SpecFilter == InitFilter /\ [][NextFilter]_vars

\* ------------------------------------------------------------ insight runs

\* the temporal_insights of a call: {} or a dict whose entries pass or miss
\* the guards of lines 493-536
TemporalDicts ==
    {Null} \cup
    {Some([most_active_month |-> Some([month |-> "Enero", games |-> g]),
           best_multikill_month |-> mk,
           best_winrate_month |->
               Some([month |-> "Marzo", key |-> 3, winrate |-> wm]),
           favorite_time_of_day |-> ft,
           favorite_weekday |-> Some("Lunes"),
           favorite_weekday_games |-> wg,
           best_winrate_weekday |-> wd]) :
        g \in {0, 3},
        mk \in {Null, Some([month |-> "Mayo", key |-> 5,
                            total_multikills |-> 1])},
        wm \in {5499, 5500},
        ft \in {Null, Some("noche")},
        wg \in {0, 2},
        wd \in {Null, Some([day |-> "Lunes", key |-> 0, winrate |-> 5500])}}

\* the stats of a call: every field on either side of the thresholds of lines
\* 441-481; percentages and KDA in hundredths
StatsInputs ==
    [total_games : {0, 2},
     total_playtime_minutes : {5999, 6000},
     winrate : {4999, 5000, 5500},
     top_champions : {<<>>, <<[key |-> "Ahri", games |-> 2]>>},
     avg_kda : {199, 200, 300},
     pentakills : {0, 1},
     quadrakills : {0, 2},
     first_bloods : {9, 10},
     best_game : {Null, Some([champion |-> "Ahri", kda |-> 450])},
     temporal_insights : TemporalDicts]

\* total_matches_in_year and matches_analyzed: both given and equal, both
\* given and different, or one or both left out
CoverageInputs ==
    {<<Null, Null>>, <<Some(2), Null>>, <<Some(2), Some(2)>>,
     <<Some(2), Some(1)>>}

\* one call of generate_wrapped_insights
GenerateWrappedInsights ==
    /\ returned = Null
    /\ returned' = Some(generate_wrapped_insights(args[1].stats,
                            args[1].total_matches_in_year,
                            args[1].matches_analyzed))
    /\ UNCHANGED <<clientVars, puuid, stats, results, monthly_stats,
                   hourly_stats, weekday_stats, insights, args>>

InitInsights ==
    /\ NewClient
    /\ NoReport
    /\ puuid = 0
    /\ stats = FreshStats
    /\ results = <<>>
    /\ monthly_stats = <<>>
    /\ hourly_stats = <<>>
    /\ weekday_stats = <<>>
    /\ insights = Null
    /\ args \in {Some([stats |-> s, total_matches_in_year |-> c[1],
                       matches_analyzed |-> c[2]]) :
                     s \in StatsInputs, c \in CoverageInputs}
    /\ returned = Null

NextInsights == GenerateWrappedInsights

SpecInsights == InitInsights /\ [][NextInsights]_vars

\* ------------------------------------------------------------ URL runs

\* the tail of every host of lines 21-46, one token
HostSuffix == <<".api.riotgames.com">>

\* lines 21-38: PLATFORMS, a name being the sequence of its characters
PLATFORMS ==
    <<"b", "r", "1">> :> <<"b", "r", "1">> \o HostSuffix @@
    <<"e", "u", "n", "1">> :> <<"e", "u", "n", "1">> \o HostSuffix @@
    <<"e", "u", "w", "1">> :> <<"e", "u", "w", "1">> \o HostSuffix @@
    <<"j", "p", "1">> :> <<"j", "p", "1">> \o HostSuffix @@
    <<"k", "r">> :> <<"k", "r">> \o HostSuffix @@
    <<"l", "a", "1">> :> <<"l", "a", "1">> \o HostSuffix @@
    <<"l", "a", "2">> :> <<"l", "a", "2">> \o HostSuffix @@
    <<"n", "a", "1">> :> <<"n", "a", "1">> \o HostSuffix @@
    <<"o", "c", "1">> :> <<"o", "c", "1">> \o HostSuffix @@
    <<"p", "h", "2">> :> <<"p", "h", "2">> \o HostSuffix @@
    <<"r", "u">> :> <<"r", "u">> \o HostSuffix @@
    <<"s", "g", "2">> :> <<"s", "g", "2">> \o HostSuffix @@
    <<"t", "h", "2">> :> <<"t", "h", "2">> \o HostSuffix @@
    <<"t", "r", "1">> :> <<"t", "r", "1">> \o HostSuffix @@
    <<"t", "w", "2">> :> <<"t", "w", "2">> \o HostSuffix @@
    <<"v", "n", "2">> :> <<"v", "n", "2">> \o HostSuffix

\* lines 41-46: REGIONAL_CLUSTERS
REGIONAL_CLUSTERS ==
    <<"a", "m", "e", "r", "i", "c", "a", "s">> :> <<"a", "m", "e", "r", "i", "c", "a", "s">> \o HostSuffix @@
    <<"a", "s", "i", "a">> :> <<"a", "s", "i", "a">> \o HostSuffix @@
    <<"e", "u", "r", "o", "p", "e">> :> <<"e", "u", "r", "o", "p", "e">> \o HostSuffix @@
    <<"s", "e", "a">> :> <<"s", "e", "a">> \o HostSuffix

\* lines 49-66: PLATFORM_TO_CLUSTER
PLATFORM_TO_CLUSTER ==
    <<"b", "r", "1">> :> <<"a", "m", "e", "r", "i", "c", "a", "s">> @@
    <<"l", "a", "1">> :> <<"a", "m", "e", "r", "i", "c", "a", "s">> @@
    <<"l", "a", "2">> :> <<"a", "m", "e", "r", "i", "c", "a", "s">> @@
    <<"n", "a", "1">> :> <<"a", "m", "e", "r", "i", "c", "a", "s">> @@
    <<"o", "c", "1">> :> <<"a", "m", "e", "r", "i", "c", "a", "s">> @@
    <<"k", "r">> :> <<"a", "s", "i", "a">> @@
    <<"j", "p", "1">> :> <<"a", "s", "i", "a">> @@
    <<"e", "u", "n", "1">> :> <<"e", "u", "r", "o", "p", "e">> @@
    <<"e", "u", "w", "1">> :> <<"e", "u", "r", "o", "p", "e">> @@
    <<"t", "r", "1">> :> <<"e", "u", "r", "o", "p", "e">> @@
    <<"r", "u">> :> <<"e", "u", "r", "o", "p", "e">> @@
    <<"p", "h", "2">> :> <<"s", "e", "a">> @@
    <<"s", "g", "2">> :> <<"s", "e", "a">> @@
    <<"t", "h", "2">> :> <<"s", "e", "a">> @@
    <<"t", "w", "2">> :> <<"s", "e", "a">> @@
    <<"v", "n", "2">> :> <<"s", "e", "a">>

UpperCase == <<"A", "B", "C", "D", "E", "F", "G", "H", "I", "J", "K", "L", "M",
               "N", "O", "P", "Q", "R", "S", "T", "U", "V", "W", "X", "Y", "Z">>

LowerCase == <<"a", "b", "c", "d", "e", "f", "g", "h", "i", "j", "k", "l", "m",
               "n", "o", "p", "q", "r", "s", "t", "u", "v", "w", "x", "y", "z">>

\* str.lower(): every upper-case letter replaced, the rest as it is
Lower(s) ==
    [i \in 1..Len(s) |->
        IF \E k \in 1..Len(UpperCase) : UpperCase[k] = s[i]
        THEN LowerCase[CHOOSE k \in 1..Len(UpperCase) : UpperCase[k] = s[i]]
        ELSE s[i]]

\* dict.get(key, default)
DictGet(d, k, default) == IF k \in DOMAIN d THEN d[k] ELSE default

\* how a call ends
Returns(v) == [kind |-> "returned", value |-> v]
Raises(e) == [kind |-> "raised", value |-> e]

\* the lookup without the test of lines 146-150: a missing name gives the
\* string "https://None"
get_platform_url_unchecked(region) ==
    LET platform == DictGet(PLATFORMS, Lower(region), <<"None">>)
    IN  Returns(<<"https://">> \o platform)

\* _get_platform_url(region), lines 143-151
get_platform_url(region) ==
    LET platform == DictGet(PLATFORMS, Lower(region), Null)
    IN  IF platform = Null THEN Raises("ValueError")
        ELSE Returns(<<"https://">> \o platform)

\* _get_regional_url(cluster), lines 153-161
get_regional_url(cluster) ==
    LET regional_platform == DictGet(REGIONAL_CLUSTERS, Lower(cluster), Null)
    IN  IF regional_platform = Null THEN Raises("ValueError")
        ELSE Returns(<<"https://">> \o regional_platform)

\* lines 531-532, the base URL of get_match_history(puuid, region): the
\* cluster of the platform, "americas" for a name of no platform
cluster_url(region) ==
    get_regional_url(DictGet(PLATFORM_TO_CLUSTER, Lower(region),
                             <<"a", "m", "e", "r", "i", "c", "a", "s">>))

\* names that are no key as they are written: keys in other case, and names
\* that are no key in any case
OtherNames ==
    {<<"N", "A", "1">>,
     <<"K", "r">>,
     <<"E", "U", "W", "1">>,
     <<"L", "a", "2">>,
     <<"A", "m", "e", "r", "i", "c", "a", "s">>,
     <<"S", "E", "A">>,
     <<"E", "U", "R", "O", "P", "E">>,
     <<>>,
     <<"i", "n", "v", "a", "l", "i", "d">>,
     <<"n", "a">>,
     <<"n", "a", "1", "1">>,
     <<"e", "u">>,
     <<"k", "r", "1">>,
     <<"1">>}

RegionNames == DOMAIN PLATFORMS \cup DOMAIN REGIONAL_CLUSTERS \cup OtherNames

\* one call of f on the name of the run
UrlCall(f, result) ==
    /\ returned = Null
    /\ returned' = Some([f |-> f, result |-> result])
    /\ UNCHANGED <<clientVars, puuid, stats, results, monthly_stats,
                   hourly_stats, weekday_stats, insights, args>>

GetPlatformUrl == UrlCall("_get_platform_url", get_platform_url(args[1].name))

GetRegionalUrl == UrlCall("_get_regional_url", get_regional_url(args[1].name))

GetClusterUrl == UrlCall("get_match_history", cluster_url(args[1].name))

InitUrls ==
    /\ NewClient
    /\ NoReport
    /\ puuid = 0
    /\ stats = FreshStats
    /\ results = <<>>
    /\ monthly_stats = <<>>
    /\ hourly_stats = <<>>
    /\ weekday_stats = <<>>
    /\ insights = Null
    /\ args \in {Some([name |-> n]) : n \in RegionNames}
    /\ returned = Null

NextUrls == GetPlatformUrl \/ GetRegionalUrl \/ GetClusterUrl

SpecUrls == InitUrls /\ [][NextUrls]_vars

\* ------------------------------------------------------------ fair runs

\* the task is cancelled in its sleep and leaves with the lock still held
CancelAsleepKeepsLock(p) ==
    /\ pc[p] \in {"sleep2min", "sleep1s"}
    /\ pc' = [pc EXCEPT ![p] = "cancelled"]
    /\ now' = [now EXCEPT ![p] = 0]
    /\ wake' = [wake EXCEPT ![p] = 0]
    /\ UNCHANGED <<clock, request_times, lockHolder, lockWaiters, admitted,
                   calls, gaps, s3, fetchVars, faultsLeft, wrapVars, anaVars>>

\* the task is cancelled at the await of line 182 or 190: CancelledError
\* leaves the `async with` block of line 170, which releases the lock to the
\* first waiter, if any; nothing is appended
CancelAsleep(p) ==
    /\ pc[p] \in {"sleep2min", "sleep1s"}
    /\ IF lockWaiters = <<>>
       THEN /\ lockHolder' = None
            /\ UNCHANGED lockWaiters
            /\ pc' = [pc EXCEPT ![p] = "cancelled"]
       ELSE /\ lockHolder' = Head(lockWaiters)
            /\ lockWaiters' = Tail(lockWaiters)
            /\ pc' = [pc EXCEPT ![p] = "cancelled",
                                ![Head(lockWaiters)] = "check"]
    /\ now' = [now EXCEPT ![p] = 0]
    /\ wake' = [wake EXCEPT ![p] = 0]
    /\ UNCHANGED <<clock, request_times, admitted, calls, gaps, s3, fetchVars,
                   faultsLeft, wrapVars, anaVars>>

\* the task is cancelled while it waits for the lock at line 170:
\* asyncio.Lock.acquire takes it out of the queue
CancelWaiting(p) ==
    /\ pc[p] = "waitlock"
    /\ lockWaiters' = SelectSeq(lockWaiters, LAMBDA q : q # p)
    /\ pc' = [pc EXCEPT ![p] = "cancelled"]
    /\ UNCHANGED <<clock, request_times, lockHolder, now, wake, admitted,
                   calls, gaps, s3, fetchVars, faultsLeft, wrapVars, anaVars>>

\* CancelledError reaches the caller of _wait_for_rate_limit
RaiseAdmit(p) ==
    /\ pc[p] = "cancelled"
    /\ pc' = [pc EXCEPT ![p] = "idle"]
    /\ UNCHANGED <<clock, request_times, lockHolder, lockWaiters, now, wake,
                   admitted, calls, gaps, s3, fetchVars, faultsLeft, wrapVars,
                   anaVars>>

\* the steps the event loop owes to a task whose call is under way
AdmitStep(p) ==
    \/ Acquire(p)
    \/ Check(p)
    \/ WakeTwoMin(p)
    \/ WakeSecond(p)
    \/ Record(p)
    \/ ReturnAdmit(p)
    \/ RaiseAdmit(p)

\* the shared client as the calls of a fair run find it
LiveStates ==
    ClientStates \cup
    {[ledger |-> LoadedLedger, time |-> LoadedLedger[Len(LoadedLedger)]]}

InitLive ==
    /\ \E c \in LiveStates :
          /\ request_times = c.ledger
          /\ admitted = c.ledger
          /\ clock = c.time
    /\ lockHolder = None
    /\ lockWaiters = <<>>
    /\ pc = [p \in Procs |-> "idle"]
    /\ now = [p \in Procs |-> 0]
    /\ wake = [p \in Procs |-> 0]
    /\ calls = 0
    /\ gaps = 0
    /\ s3 = NoBucket
    /\ fpc = [p \in Procs |-> "none"]
    /\ attempt = [p \in Procs |-> 0]
    /\ fresult = [p \in Procs |-> "none"]
    /\ resps = [p \in Procs |-> <<>>]
    /\ waits = [p \in Procs |-> <<>>]
    /\ gets = [p \in Procs |-> 0]
    /\ fadm = [p \in Procs |-> 0]
    /\ fetches = 0
    /\ faultsLeft = 0
    /\ NoReport
    /\ NoAnalysis

CallAdmitLive(p) == BeginAdmit(p, MaxLiveCalls)

NextLive ==
    \/ \E p \in Procs : CallAdmitLive(p)
    \/ \E p \in Procs : AdmitStep(p)
    \/ \E p \in Procs : CancelAsleep(p)
    \/ \E p \in Procs : CancelWaiting(p)
    \/ TimePasses
    \/ IdleGap

\* a fair scheduler: every task that can step does; an advancing clock: every
\* deadline is reached
SpecLive ==
    /\ InitLive
    /\ [][NextLive]_vars
    /\ \A p \in Procs : WF_vars(AdmitStep(p))
    /\ WF_vars(TimePasses)

\* ------------------------------------------------------------ claims

\* admissions of history `ts` that fall in the window of length w ending at hi
InWindow(ts, hi, w) == {i \in 1..Len(ts) : ts[i] <= hi /\ hi - ts[i] < w}

LastAdmitted == admitted[Len(admitted)]

\* C1: the admissions ever recorded never number more than 19 in a rolling
\* one-second window nor more than 95 in a rolling 120-second window.  The
\* history only grows and its timestamps never decrease, so every window
\* that holds an admission lies within the window ending at the latest
\* admission of some reachable state.
C1_RateBudgets ==
    admitted # <<>> =>
        /\ Cardinality(InWindow(admitted, LastAdmitted, SecondWindow))
               <= requests_per_second
        /\ Cardinality(InWindow(admitted, LastAdmitted, TwoMinWindow))
               <= requests_per_2min

\* both budgets are exhausted at once, after a call that slept for the
\* two-minute budget
C1_Witness ==
    /\ Len(admitted) > requests_per_2min
    /\ Cardinality(InWindow(admitted, LastAdmitted, SecondWindow))
           = requests_per_second
    /\ Cardinality(InWindow(admitted, LastAdmitted, TwoMinWindow))
           = requests_per_2min

\* a task is between reading the ledger and appending its timestamp
InSection(p) == pc[p] \in {"check", "sleep2min", "sleep1s", "append"}

\* C2: prune / check / wait / append is one critical section: a task in it
\* holds the lock, also while it sleeps, so at most one task is in it and
\* the ledger is read and written under the lock only.
C2_CriticalSection ==
    /\ \A p \in Procs : InSection(p) => lockHolder = p
    /\ Cardinality({p \in Procs : InSection(p)}) <= 1

\* one task sleeps for the two-minute budget while another waits for the lock
C2_Witness ==
    \E p, q \in Procs : pc[p] = "sleep2min" /\ pc[q] = "waitlock"

\* the fetch of task p has ended, by a value or by an exception
Ended(p) == fpc[p] \in {"returned", "raised"}

Throttled(r) == r.kind = "response" /\ r.status = 429

\* a non-2xx status other than 429, or a transport-level failure
NotRetried(r) ==
    \/ r.kind = "transport"
    \/ r.kind = "response" /\ r.status \notin {200, 429}

\* C3: every GET of a fetch, first attempt and retries alike, follows exactly
\* one completed admit(): whenever a GET is out or answered the fetch has
\* added as many timestamps to the ledger as it has sent GETs, and while the
\* fetch is inside admit() it has added at most the one for the next GET.
C3_AdmitBeforeEveryGet ==
    \A p \in Procs :
        /\ fpc[p] \in {"get", "backoff", "loop", "returned", "raised"} =>
              fadm[p] = gets[p]
        /\ fpc[p] = "admit" =>
              /\ gets[p] = attempt[p]
              /\ fadm[p] = IF pc[p] = "done" THEN gets[p] + 1 ELSE gets[p]
        /\ fpc[p] \in {"get", "backoff"} \/ Ended(p) => gets[p] = attempt[p] + 1

\* a fetch has ended after max_retries GETs, each with its own admission
C3_Witness ==
    \E p \in Procs : Ended(p) /\ gets[p] = max_retries /\ fadm[p] = max_retries

\* C4: a fetch answered 429 on every attempt makes exactly 3 GETs and then
\* raises the throttling error; no fetch makes more than 3 GETs; a fetch that
\* gets a 2xx on attempt k returns the body after exactly k GETs.
C4_RetryBound ==
    \A p \in Procs :
        /\ gets[p] <= max_retries
        /\ Ended(p) /\ (\A i \in 1..Len(resps[p]) : Throttled(resps[p][i])) =>
              /\ gets[p] = max_retries
              /\ fresult[p] = "HTTPStatusError 429"
        /\ Ended(p) /\ Success(resps[p][Len(resps[p])]) =>
              /\ fpc[p] = "returned"
              /\ fresult[p] = "body"
              /\ gets[p] = Len(resps[p])

\* C5: the backoff after the throttled attempt number a (from 0) lasts the
\* Retry-After value of that response, 2 s when the header is absent, times
\* 2^a; each attempt after the first is preceded by exactly one such wait,
\* and there is no wait after the last permitted attempt.
C5_BackoffSchedule ==
    \A p \in Procs :
        /\ \A i \in 1..Len(waits[p]) :
              /\ Throttled(resps[p][i])
              /\ waits[p][i] =
                    (IF resps[p][i].retry_after = "absent"
                     THEN DefaultRetryAfter ELSE IntOf(resps[p][i].retry_after))
                    * (2 ^ (i - 1))
        /\ Len(waits[p]) <= max_retries - 1
        /\ fpc[p] = "get" => Len(waits[p]) = gets[p] - 1
        /\ fpc[p] = "backoff" => Len(waits[p]) = gets[p] /\ gets[p] < max_retries
        /\ Ended(p) => Len(waits[p]) = gets[p] - 1

\* a fetch throttled three times with Retry-After: 1 has waited 1 s, then 2 s,
\* and ended without a third wait
C5_Witness ==
    \E p \in Procs :
        /\ fpc[p] = "raised"
        /\ gets[p] = max_retries
        /\ waits[p] = <<1, 2>>
        /\ \A i \in 1..Len(resps[p]) : resps[p][i].retry_after = "1"

\* C6: a status other than 2xx and 429, or a transport failure, ends the
\* fetch at once with the error: no backoff wait, no further GET and no
\* further admission follow it; met on the first attempt the fetch ends after
\* exactly one GET and one admission.
C6_NoRetryOnOtherErrors ==
    \A p \in Procs :
        resps[p] # <<>> /\ NotRetried(resps[p][Len(resps[p])]) =>
            /\ fpc[p] = "raised"
            /\ fresult[p] =
                  IF resps[p][Len(resps[p])].kind = "transport"
                  THEN "TransportError" ELSE "HTTPStatusError"
            /\ gets[p] = Len(resps[p])
            /\ fadm[p] = Len(resps[p])
            /\ Len(waits[p]) = Len(resps[p]) - 1
            /\ Len(resps[p]) = 1 => gets[p] = 1 /\ fadm[p] = 1 /\ waits[p] = <<>>

\* a fetch has failed on a 404 at its first attempt
C6_Witness ==
    \E p \in Procs :
        /\ fpc[p] = "raised"
        /\ Len(resps[p]) = 1
        /\ resps[p][1].status = 404


\* the ID-page requests and the detail requests of the run, in issue order
PageRequests == SelectSeq(requests, LAMBDA r : r.kind = "ids")

DetailRequests == SelectSeq(requests, LAMBDA r : r.kind = "detail")

\* the size of the page the upstream returns to a page request
PageSize(r) == Len(PageBody(r.start, r.count))

RECURSIVE SumSizes(_, _)
\* the sizes of the first k pages, added up
SumSizes(pg, k) == IF k = 0 THEN 0 ELSE SumSizes(pg, k - 1) + PageSize(pg[k])

RECURSIVE ConcatPages(_, _)
\* the first k pages the upstream returned, one after the other
ConcatPages(pg, k) ==
    IF k = 0 THEN <<>>
    ELSE ConcatPages(pg, k - 1) \o PageBody(pg[k].start, pg[k].count)

\* the ID collection is over: the total has been taken
Collected == total_matches_in_year # -1

\* C7: pages are requested with size 100 at offsets that start at 0 and are
\* the sum of the sizes of the earlier pages, hence strictly increasing; no
\* page is requested after a short or empty one; at most one page request is
\* in flight; a completed collection over N IDs took N div 100 + 1 requests.
C7_Pagination ==
    LET pg == PageRequests
    IN  /\ \A i \in 1..Len(pg) :
              /\ pg[i].count = batch_size
              /\ pg[i].start = SumSizes(pg, i - 1)
        /\ \A i, j \in 1..Len(pg) : i < j => pg[i].start < pg[j].start
        /\ \A i \in 1..(Len(pg) - 1) : PageSize(pg[i]) = batch_size
        /\ Len(pg) - pages_received \in {0, 1}
        /\ Collected =>
              /\ Len(pg) = upstream_n \div batch_size + 1
              /\ pages_received = Len(pg)

\* an upstream with two full pages was read with three requests, at 0, 100
\* and 200
C7_Witness ==
    /\ upstream_n = 2 * batch_size
    /\ Collected
    /\ [i \in 1..Len(PageRequests) |-> PageRequests[i].start]
          = <<0, batch_size, 2 * batch_size>>

\* the total is the length of the concatenation of the pages returned, and
\* the detail requests are, in order, for the first k IDs of it
TotalAndPrefix(k) ==
    LET all == ConcatPages(PageRequests, Len(PageRequests))
        dr == DetailRequests
    IN  Collected =>
          /\ total_matches_in_year = Len(all)
          /\ outcome.kind = "report" =>
                outcome.total_matches_in_year = Len(all)
          /\ Len(dr) <= k
          /\ \A i \in 1..Len(dr) : dr[i].start = all[i]
          /\ wpc \in {"challenges", "done"} => Len(dr) = k

\* C8 as stated: total_matches_in_year is the number of IDs in all pages, and
\* the detail requests are for the first min(max_matches, total) IDs, for
\* every max_matches the caller passes; a count below 0 asks for no ID.
C8_AsStated ==
    TotalAndPrefix(Max(Min(max_matches_arg, total_matches_in_year), 0))

\* C8, amended: total_matches_in_year is the number of IDs in all pages, and
\* the detail requests are for the first min(max(max_matches, 1), total) IDs
\* in order: a max_matches below 1 counts as 1.
C8_TotalAndPrefix ==
    TotalAndPrefix(Min(Max(max_matches_arg, 1), total_matches_in_year))

\* 101 IDs and max_matches = 2: the report says 101 and details were asked
\* for the IDs 1 and 2 only
C8_Witness ==
    /\ upstream_n = batch_size + 1
    /\ max_matches_arg = 2
    /\ outcome.kind = "report"
    /\ outcome.total_matches_in_year = batch_size + 1
    /\ [i \in 1..Len(DetailRequests) |-> DetailRequests[i].start] = <<1, 2>>

\* C9: no ID-page request follows a detail request, and once a detail request
\* has been issued every page request has been answered.
C9_PagesBeforeDetails ==
    /\ \A i, j \in 1..Len(requests) :
          i < j /\ requests[i].kind = "detail" => requests[j].kind # "ids"
    /\ DetailRequests # <<>> =>
          /\ wpc # "pages"
          /\ pages_received = Len(PageRequests)

\* a run with two ID pages and two detail requests that ended with a report
C9_Witness ==
    /\ Len(PageRequests) = 2
    /\ Len(DetailRequests) = 2
    /\ pages_received = 2
    /\ outcome.kind = "report"

\* the number of rounds of the detail loop that are over
DetailsDone ==
    CASE wpc = "details" -> di - 1
      [] wpc \in {"challenges", "done"} -> Len(match_ids)
      [] OTHER -> 0

RECURSIVE Kept(_, _)
\* the details of those of the first k IDs whose fetch did not fail
Kept(ids, k) ==
    IF k = 0 THEN <<>>
    ELSE IF k \in failed THEN Kept(ids, k - 1)
         ELSE Append(Kept(ids, k - 1), Detail(ids[k]))

\* C10: the match list is the details of the IDs whose fetch did not fail,
\* in input order and without placeholders, and no failed detail fetch makes
\* get_player_wrapped end with the error object.
C10_DetailFailuresSkipped ==
    /\ failed \subseteq 1..DetailsDone
    /\ matches = Kept(match_ids, DetailsDone)
    /\ Collected => outcome.kind # "error"
    /\ outcome.kind = "report" =>
          outcome.matches_analyzed = Len(match_ids) - Cardinality(failed)

\* three IDs of which the second failed: the report counts the two others
C10_Witness ==
    /\ Len(match_ids) = 3
    /\ failed = {2}
    /\ matches = <<Detail(match_ids[1]), Detail(match_ids[3])>>
    /\ outcome.kind = "report"
    /\ outcome.matches_analyzed = 2


\* C11 as stated: a report has total_matches_in_year >= matches_analyzed and
\* matches_analyzed <= max_matches, whatever max_matches the caller passed.
C11_AsStated ==
    outcome.kind = "report" =>
        /\ outcome.total_matches_in_year >= outcome.matches_analyzed
        /\ outcome.matches_analyzed <= max_matches_arg

\* C11, amended: a report has total_matches_in_year >= matches_analyzed and
\* matches_analyzed <= max(max_matches, 1), whatever max_matches the caller
\* passed and whichever detail fetches failed.
C11_ReportCounts ==
    outcome.kind = "report" =>
        /\ outcome.total_matches_in_year >= outcome.matches_analyzed
        /\ outcome.matches_analyzed <= Max(max_matches_arg, 1)
        /\ outcome.matches_analyzed = Len(matches)

\* a report for a caller who passed a max_matches below 1: one match was
\* analysed
C11_Witness ==
    /\ outcome.kind = "report"
    /\ max_matches_arg < 1
    /\ outcome.total_matches_in_year > 1
    /\ outcome.matches_analyzed = 1

\* C12: for a non-empty match list, every result of analyze_match_history
\* has wins + losses = total_games and a winrate from 0 to 100.
C12_WinsLossesTotal ==
    \A i \in 1..Len(results) :
        matches # <<>> =>
            /\ results[i].wins + results[i].losses = results[i].total_games
            /\ results[i].winrate >= 0
            /\ results[i].winrate <= 100 * 100

\* the matches that have an `info` section and the subject among their
\* participants
Relevant(ms, id) ==
    SelectSeq(ms, LAMBDA m : m.info /\ FindPlayer(m.participants, id, 1) # 0)

\* C13: a match without `info` or without the subject changes no field of
\* the aggregate: the aggregate and the result are those of the list without
\* these matches.
C13_SkippedWhole ==
    results # <<>> =>
        LET rel == Relevant(matches, puuid)
            st == CountMatches(FreshStats, rel, puuid, Len(rel))
        IN  /\ stats = st
            /\ results[Len(results)] = Finalize(st)

\* the first index of a list of quotients num / den that no other index
\* exceeds
FirstMax(q) ==
    CHOOSE i \in 1..Len(q) :
        /\ \A j \in 1..Len(q) : q[j].num * q[i].den <= q[i].num * q[j].den
        /\ \A j \in 1..(i - 1) : q[j].num * q[i].den < q[i].num * q[j].den

\* the first index that exceeds no other index
FirstMin(q) ==
    CHOOSE i \in 1..Len(q) :
        /\ \A j \in 1..Len(q) : q[j].num * q[i].den >= q[i].num * q[j].den
        /\ \A j \in 1..(i - 1) : q[j].num * q[i].den > q[i].num * q[j].den

\* the subject's entry in a match
Player(m, id) == m.participants[FindPlayer(m.participants, id, 1)]

\* best_game and worst_game are the first match of the highest, and of the
\* lowest, KDA among the matches with the subject, the KDAs being q
BestWorstBy(q) ==
    \A r \in 1..Len(results) :
        LET rel == Relevant(matches, puuid)
        IN  IF rel = <<>>
            THEN results[r].best_game = Null /\ results[r].worst_game = Null
            ELSE /\ results[r].best_game # Null
                 /\ results[r].best_game[1].match_id = rel[FirstMax(q)].matchId
                 /\ results[r].worst_game # Null
                 /\ results[r].worst_game[1].match_id = rel[FirstMin(q)].matchId

\* C14 as stated: the KDA that is compared is (kills + assists) / deaths,
\* kills + assists without deaths; the first match with the subject seeds best
\* and worst, a later one replaces them only when strictly above or below.
C14_AsStated ==
    LET rel == Relevant(matches, puuid)
    IN  BestWorstBy([i \in 1..Len(rel) |->
            LET pd == Player(rel[i], puuid)
            IN  [num |-> pd.kills + pd.assists,
                 den |-> IF pd.deaths = 0 THEN 1 ELSE pd.deaths]])

\* C14, amended: the KDA that is compared is the value of calculate_kda, that
\* is (kills + assists) / deaths rounded to two decimals; the first match with
\* the subject seeds best and worst, a later one replaces them only when its
\* rounded KDA is strictly above or below, so that matches equal after
\* rounding keep the earlier one.
C14_BestWorst ==
    LET rel == Relevant(matches, puuid)
    IN  BestWorstBy([i \in 1..Len(rel) |->
            LET pd == Player(rel[i], puuid)
            IN  [num |-> calculate_kda(pd.kills, pd.deaths, pd.assists),
                 den |-> 1]])

\* two matches of equal KDA in the order M1, M6: M1 is the best and the
\* worst game
C14_Witness ==
    /\ puuid = 1
    /\ Len(matches) = 2
    /\ matches[1].matchId = "M1" /\ matches[2].matchId = "M6"
    /\ results # <<>>
    /\ results[1].best_game[1].match_id = "M1"
    /\ results[1].worst_game[1].match_id = "M1"

\* the KDAs a result holds, with the kills, deaths and assists they are of
KdaUses(r) ==
    {[kda |-> g[1].kda, ka |-> g[1].kills + g[1].assists, deaths |-> g[1].deaths] :
        g \in {h \in {r.best_game, r.worst_game} : h # Null}}
    \cup (IF r.total_games > 0
          THEN {[kda |-> r.avg_kda, ka |-> r.total_kills + r.total_assists,
                 deaths |-> r.total_deaths]}
          ELSE {})

\* C15 as stated: calculate_kda returns kills + assists when deaths = 0 and
\* (kills + assists) / deaths when deaths > 0 (values in hundredths).
C15_AsStated ==
    \A i \in 1..Len(results) : \A u \in KdaUses(results[i]) :
        IF u.deaths = 0 THEN u.kda = 100 * u.ka
        ELSE u.kda * u.deaths = 100 * u.ka

\* C15, amended: calculate_kda returns kills + assists when deaths = 0 and
\* the hundredth nearest to (kills + assists) / deaths when deaths > 0.
C15_Kda ==
    \A i \in 1..Len(results) : \A u \in KdaUses(results[i]) :
        IF u.deaths = 0 THEN u.kda = 100 * u.ka
        ELSE /\ 2 * (u.kda * u.deaths - 100 * u.ka) <= u.deaths
             /\ 2 * (100 * u.ka - u.kda * u.deaths) <= u.deaths

\* a result with a game without deaths (KDA 4) and with a game of 21
\* kills and assists and 22 deaths (KDA 0.95)
C15_Witness ==
    /\ results # <<>>
    /\ results[1].best_game # Null
    /\ results[1].best_game[1].deaths = 0
    /\ results[1].best_game[1].kda = 400
    /\ results[1].worst_game[1].deaths = 22
    /\ results[1].worst_game[1].kda = 95

C17_SmallSamplesNull ==
    insights # Null =>
        LET r == insights[1]
            Games(d, key) == d[IndexOf(d, key, 1)].games
        IN  /\ (\A i \in 1..Len(monthly_stats) : monthly_stats[i].games < 5) =>
                  r.best_winrate_month = Null /\ r.best_kda_month = Null
            /\ (\A i \in 1..Len(weekday_stats) : weekday_stats[i].games < 5) =>
                  r.best_winrate_weekday = Null
            /\ r.best_winrate_month # Null =>
                  Games(monthly_stats, r.best_winrate_month[1].key) >= 5
            /\ r.best_kda_month # Null =>
                  Games(monthly_stats, r.best_kda_month[1].key) >= 5
            /\ r.best_winrate_weekday # Null =>
                  Games(weekday_stats, r.best_winrate_weekday[1].key) >= 5

\* a month of 3 games with 2 wins is the most active one, and no month is
\* named for win rate or KDA; a weekday of 3 won games is not named either
C17_Witness ==
    /\ insights # Null
    /\ Len(monthly_stats) = 2
    /\ \A i \in 1..2 : monthly_stats[i].games = 3 /\ monthly_stats[i].wins = 2
    /\ Len(weekday_stats) = 1 /\ weekday_stats[1].games = 3
    /\ insights[1].most_active_month[1].games = 3
    /\ insights[1].best_winrate_month = Null
    /\ insights[1].best_kda_month = Null
    /\ insights[1].best_winrate_weekday = Null

\* the win-rate superlative `best` is there and names a period of d with at
\* least 5 games whose win rate no other such period exceeds
BestWinrateOf(d, best) ==
    (\E i \in 1..Len(d) : d[i].games >= 5) =>
        /\ best # Null
        /\ LET b == d[IndexOf(d, best[1].key, 1)]
           IN  /\ b.games >= 5
               /\ \A j \in 1..Len(d) :
                     d[j].games >= 5 => d[j].wins * b.games <= b.wins * d[j].games

\* C18: when a month, or a weekday, has at least 5 games, best_winrate_month,
\* or best_winrate_weekday, is not null and names a period with at least 5
\* games whose win rate no other period with at least 5 games exceeds.
C18_BestWinrate ==
    insights # Null =>
        /\ BestWinrateOf(monthly_stats, insights[1].best_winrate_month)
        /\ BestWinrateOf(weekday_stats, insights[1].best_winrate_weekday)

\* no period of d has games
NoGames(d) == \A i \in 1..Len(d) : d[i].games = 0

\* C19: a superlative whose category has no period with a nonzero sample is
\* null: the summary names no period, no bucket and no zero-count object
\* for it.
C19_NoFabricatedSuperlative ==
    insights # Null =>
        LET r == insights[1]
        IN  /\ NoGames(monthly_stats) =>
                  /\ r.most_active_month = Null
                  /\ r.best_winrate_month = Null
                  /\ r.best_kda_month = Null
            /\ (\A i \in 1..Len(monthly_stats) : monthly_stats[i].multikills = 0)
                  => r.best_multikill_month = Null
            /\ NoGames(hourly_stats) =>
                  /\ r.peak_hour = Null
                  /\ r.favorite_time_of_day = Null
            /\ NoGames(weekday_stats) =>
                  /\ r.favorite_weekday = Null
                  /\ r.best_winrate_weekday = Null

\* C20: when a profile call or an ID-page request of get_player_wrapped
\* raises, the next step returns the error object and sends nothing; a run
\* that returned the error object has sent no detail and no challenges
\* request, is over, and returns nothing else.
C20_AbortOnEarlyFailure ==
    /\ [](outcome.kind = "error" =>
            /\ wpc = "done"
            /\ \A i \in 1..Len(requests) : requests[i].kind = "ids"
            /\ \A p \in Procs : fpc[p] = "none")
    /\ [][\A p \in Procs :
            wpc \in {"profile", "pages"} /\ fpc[p] = "raised" =>
                outcome'.kind = "error" /\ requests' = requests]_vars
    /\ [][outcome.kind = "error" =>
            outcome' = outcome /\ requests' = requests]_vars

\* the second ID page failed: the error object was returned after two page
\* requests
C20_Witness ==
    /\ outcome.kind = "error"
    /\ pages_received = 1
    /\ Len(requests) = 2


\* C21: get_player_wrapped always ends, and what it returns is the full
\* report, with total_matches_in_year and matches_analyzed, or the object
\* with error, message and details; no exception is left to its caller
C21_AlwaysAnObject ==
    /\ [](wpc = "done" =>
            /\ \/ /\ outcome.kind = "report"
                  /\ {"total_matches_in_year", "matches_analyzed",
                      "statistics", "challenges", "insights"}
                        \subseteq DOMAIN outcome
               \/ /\ outcome.kind = "error"
                  /\ DOMAIN outcome = {"kind", "error", "message", "details"}
            /\ \A p \in Procs : fpc[p] = "none" /\ fresult[p] = "none")
    /\ (wpc # "none") ~> (wpc = "done")

\* a call that ended with the error object after int() raised ValueError on
\* an HTTP-date in Retry-After, on the second ID page
C21_Witness ==
    /\ wpc = "done"
    /\ outcome.kind = "error"
    /\ outcome.error = "ValueError"
    /\ pages_received = 1


\* the insights of the matches as the report of the current state holds them
MatchInsights ==
    generate_wrapped_insights(analyze_match_history(matches, AccountPuuid),
                              Some(total_matches_in_year), Some(Len(matches)))

\* C22: the end of the challenges call, failed or not, yields the full
\* report; its statistics, its two counts and its match insights are those
\* of the matches fetched before, whatever the challenges call did; after a
\* failed fetch or analysis, challenges is null and no challenge line is added
C22_ChallengesAbsorbed ==
    [][wpc = "challenges" /\ wpc' = "done" =>
        /\ outcome'.kind = "report"
        /\ outcome'.statistics = analyze_match_history(matches, AccountPuuid)
        /\ outcome'.total_matches_in_year = Len(all_match_ids)
        /\ outcome'.matches_analyzed = Len(matches)
        /\ SubSeq(outcome'.insights, 1, Len(MatchInsights)) = MatchInsights
        /\ (\E p \in Procs : fpc[p] = "raised") => outcome'.challenges = "null"
        /\ outcome'.challenges = "null" => outcome'.insights = MatchInsights
    ]_vars

\* a report of two analysed matches without challenges: the one failure of
\* the run hit no detail fetch
C22_Witness ==
    /\ wpc = "done"
    /\ outcome.kind = "report"
    /\ outcome.challenges = "null"
    /\ outcome.matches_analyzed = 2
    /\ outcome.statistics.total_games = 2
    /\ faultsLeft = 0
    /\ failed = {}


\* the report of a player without matches: both counts 0, statistics of no
\* game, and no detail request
EmptyReport ==
    /\ upstream_n = 0 /\ wpc = "done" /\ outcome.kind = "report" =>
          /\ outcome.total_matches_in_year = 0
          /\ outcome.matches_analyzed = 0
          /\ outcome.statistics.total_games = 0
    /\ upstream_n = 0 => DetailRequests = <<>>

C24_ClientSideFilter ==
    /\ \A i \in 1..Len(all_match_ids) : InPeriod(all_match_ids[i])
    /\ Collected => total_matches_in_year <= upstream_n
    /\ \A i \in 1..Len(DetailRequests) : InPeriod(DetailRequests[i].start)


\* the ID has a delimiter
Delimited(id) == \E i \in 1..Len(id) : id[i] = "_"

\* the characters between the first delimiter and the next one, or the end
Stamp(id) ==
    LET first == CHOOSE i \in 1..Len(id) :
                     id[i] = "_" /\ \A j \in 1..(i - 1) : id[j] # "_"
        rest == SubSeq(id, first + 1, Len(id))
        stop == IF Delimited(rest)
                THEN (CHOOSE i \in 1..Len(rest) :
                         rest[i] = "_" /\ \A j \in 1..(i - 1) : rest[j] # "_") - 1
                ELSE Len(rest)
    IN  SubSeq(rest, 1, stop)

\* the ID holds a timestamp that can be read
Parseable(id) == Delimited(id) /\ ~IntRaises(Stamp(id))

\* the year of the call, 2025 by default
YearOf(y) == IF y = Null THEN DefaultYear ELSE y[1]

\* the ID's timestamp lies in the year
InYear(id, y) ==
    LET ts == ParseInt(Stamp(id), Len(Stamp(id)))
    IN  YearStart(YearOf(y)) <= ts /\ ts < YearStart(YearOf(y) + 1)

\* C25: the output of filter_matches_by_year is the input without the IDs
\* whose timestamp can be read and lies outside the year: every ID without a
\* delimiter or with a part after it that is no number is kept, in order
C25_UnparseableKept ==
    returned # Null =>
        returned[1] =
            SelectSeq(args[1].match_ids,
                      LAMBDA id : ~Parseable(id) \/ InYear(id, args[1].year))


\* C26: however the _save_to_s3 call after a parsed body ends, and it never
\* ends by raising, the fetch returns the body: the parsed response is the
\* last one of the fetch (no retry follows it) and nothing is raised
C26_SideChannelSwallowed ==
    \A p \in Procs : \A i \in 1..Len(resps[p]) :
        /\ resps[p][i].saved # "raised"
        /\ Success(resps[p][i]) =>
              /\ i = Len(resps[p])
              /\ gets[p] = i
              /\ fpc[p] = "returned"
              /\ fresult[p] = "body"

\* a fetch has returned the body although the _save_to_s3 call ended in its
\* exception handler
C26_Witness ==
    \E p \in Procs :
        /\ fpc[p] = "returned"
        /\ fresult[p] = "body"
        /\ resps[p][Len(resps[p])].saved = "swallowed"


\* the place of a rule in the order of the lines
RuleRank(rule) ==
    CASE rule = "coverage" -> 1
      [] rule = "total_games" -> 2
      [] rule = "hours" -> 3
      [] rule = "winrate" -> 4
      [] rule = "main_champion" -> 5
      [] rule = "kda" -> 6
      [] rule \in {"pentakills", "quadrakills"} -> 7
      [] rule = "first_bloods" -> 8
      [] rule = "best_game" -> 9
      [] rule = "most_active_month" -> 10
      [] rule = "best_multikill_month" -> 11
      [] rule = "best_winrate_month" -> 12
      [] rule = "favorite_time_of_day" -> 13
      [] rule = "favorite_weekday" -> 14
      [] rule = "best_winrate_weekday" -> 15
      [] OTHER -> 0

\* the lines of the returned list that a rule emitted
LinesOf(lines, rule) == {i \in 1..Len(lines) : lines[i].rule = rule}

\* the win-rate tier of a percentage in hundredths
WinrateTier(w) == IF w >= 5500 THEN "high" ELSE IF w >= 5000 THEN "even" ELSE "low"

\* C27: the lines come in the fixed order of their rules, no rule twice; a
\* played year has exactly one win-rate line, of the tier of the win rate; at
\* most one multi-kill line, the pentakill one whenever pentakills > 0; the
\* other lines only under their guards; no games, nothing but the coverage note
C27_FixedRuleOrder ==
    returned # Null /\ args # Null /\ "stats" \in DOMAIN args[1] =>
        LET lines == returned[1]
            st == args[1].stats
            total == args[1].total_matches_in_year
            analyzed == args[1].matches_analyzed
            Has(rule) == LinesOf(lines, rule) # {}
        IN  /\ \A i \in 1..Len(lines) : RuleRank(lines[i].rule) > 0
            /\ \A i, j \in 1..Len(lines) :
                  i < j => RuleRank(lines[i].rule) < RuleRank(lines[j].rule)
            /\ Has("coverage") <=> (total # Null /\ analyzed # Null)
            /\ st.total_games = 0 =>
                  \A i \in 1..Len(lines) : lines[i].rule = "coverage"
            /\ st.total_games > 0 =>
                  /\ Cardinality(LinesOf(lines, "winrate")) = 1
                  /\ \A i \in LinesOf(lines, "winrate") :
                        lines[i].args[1] = WinrateTier(st.winrate)
                  /\ Has("pentakills") <=> st.pentakills > 0
                  /\ Has("quadrakills") <=>
                        (st.pentakills = 0 /\ st.quadrakills > 0)
                  /\ Has("total_games") <=> total = Null
                  /\ Has("hours") <=> st.total_playtime_minutes >= 100 * 60
                  /\ Has("main_champion") <=> st.top_champions # <<>>
                  /\ Has("kda") <=> st.avg_kda >= 200
                  /\ Has("first_bloods") <=> st.first_bloods >= 10
                  /\ Has("best_game") <=> st.best_game # Null
                  /\ st.temporal_insights = Null =>
                        \A i \in 1..Len(lines) : RuleRank(lines[i].rule) < 10
                  /\ st.temporal_insights # Null =>
                        LET tp == st.temporal_insights[1]
                        IN  /\ Has("most_active_month") <=>
                                  tp.most_active_month[1].games > 0
                            /\ Has("best_multikill_month") <=>
                                  tp.best_multikill_month # Null
                            /\ Has("best_winrate_month") <=>
                                  tp.best_winrate_month[1].winrate >= 5500
                            /\ Has("favorite_time_of_day") <=>
                                  tp.favorite_time_of_day # Null
                            /\ Has("favorite_weekday") <=>
                                  tp.favorite_weekday_games > 0
                            /\ Has("best_winrate_weekday") <=>
                                  tp.best_winrate_weekday # Null

\* a played year with pentakills and quadrakills: every rule has its line, the
\* multi-kill line is the pentakill one
C27_Witness ==
    /\ returned # Null /\ args # Null /\ "stats" \in DOMAIN args[1]
    /\ args[1].stats.total_games > 0
    /\ args[1].stats.pentakills > 0
    /\ args[1].stats.quadrakills > 0
    /\ Len(returned[1]) = 14
    /\ LinesOf(returned[1], "pentakills") # {}


\* the result a call of f on name n must have under the table d: the URL of
\* the host of the lower-cased name, ValueError when that is no key
Resolved(d, n) ==
    IF Lower(n) \in DOMAIN d
    THEN [kind |-> "returned", value |-> <<"https://">> \o d[Lower(n)]]
    ELSE [kind |-> "raised", value |-> "ValueError"]

\* C28: _get_platform_url returns "https://" and the host of every key of
\* PLATFORMS, _get_regional_url that of every key of REGIONAL_CLUSTERS; a name
\* that is no key after lower-casing raises ValueError; PLATFORM_TO_CLUSTER
\* maps every platform key, and only those, to a key of REGIONAL_CLUSTERS, so
\* the cluster URL of a platform is always found
C28_UrlResolution ==
    /\ DOMAIN PLATFORM_TO_CLUSTER = DOMAIN PLATFORMS
    /\ \A k \in DOMAIN PLATFORMS :
          PLATFORM_TO_CLUSTER[k] \in DOMAIN REGIONAL_CLUSTERS
    /\ returned # Null /\ args # Null /\ "name" \in DOMAIN args[1] =>
          LET n == args[1].name
              got == returned[1]
          IN  /\ got.f = "_get_platform_url" =>
                    got.result = Resolved(PLATFORMS, n)
              /\ got.f = "_get_regional_url" =>
                    got.result = Resolved(REGIONAL_CLUSTERS, n)
              /\ got.f = "get_match_history" =>
                    got.result.kind = "returned"

\* _get_platform_url has raised ValueError for a name that is a cluster but no
\* platform
C28_Witness ==
    /\ returned # Null /\ args # Null /\ "name" \in DOMAIN args[1]
    /\ args[1].name \in DOMAIN REGIONAL_CLUSTERS
    /\ returned[1].f = "_get_platform_url"
    /\ returned[1].result.kind = "raised"


\* timestamps in non-decreasing order
NonDecreasing(ts) == \A i \in 1..(Len(ts) - 1) : ts[i] <= ts[i + 1]

\* no timestamp of ts is 120 seconds old or older at time n
AllFresh(ts, n) == \A i \in 1..Len(ts) : n - ts[i] < TwoMinWindow

\* C29: the ledger is always in non-decreasing order and never longer than
\* the two-minute budget; a call reads the clock and prunes before it
\* compares, so it sleeps for the two-minute budget exactly when the entries
\* younger than 120 seconds fill the budget, and the ledger it leaves on
\* return holds nothing that was 120 seconds old at its last prune
C29_LedgerInvariant ==
    /\ [](NonDecreasing(request_times)
            /\ Len(request_times) <= requests_per_2min)
    /\ [][\A p \in Procs :
            /\ pc[p] = "check" /\ pc'[p] # "check" =>
                  /\ AllFresh(request_times', now'[p])
                  /\ now'[p] = clock
                  /\ pc'[p] = "sleep2min" <=>
                        Cardinality(InWindow(request_times, clock, TwoMinWindow))
                            >= requests_per_2min
            /\ pc[p] = "sleep2min" /\ pc'[p] # "sleep2min" =>
                  /\ AllFresh(request_times', now'[p])
                  /\ now'[p] = clock
                  /\ Len(request_times') < requests_per_2min
            /\ pc[p] = "append" /\ pc'[p] = "done" =>
                  /\ AllFresh(request_times', now[p])
                  /\ Len(request_times') <= requests_per_2min
                  /\ NonDecreasing(request_times')]_vars

\* a call has returned and left a ledger from which older admissions were
\* pruned
C29_Witness ==
    \E p \in Procs :
        /\ pc[p] = "done"
        /\ request_times # <<>>
        /\ Len(admitted) > Len(request_times)


\* how far a call has come
CallRank(at) ==
    CASE at = "idle" -> 0
      [] at = "acquire" -> 1
      [] at = "waitlock" -> 2
      [] at = "check" -> 3
      [] at = "sleep2min" -> 4
      [] at = "sleep1s" -> 5
      [] at = "append" -> 6
      [] at \in {"done", "cancelled"} -> 7

\* C30: under a fair scheduler and an advancing clock every call ends, by
\* returning or by the CancelledError of a cancelled task; a call only moves
\* forward, so it sleeps at most once for each budget; a timestamp is
\* recorded exactly by the step that completes a call, one per call; the lock
\* is held only by a task inside the section and the queue holds only tasks
\* waiting for it, so no finished or failed call keeps a later one out
C30_EveryCallEnds ==
    /\ \A p \in Procs :
          (pc[p] = "acquire") ~> (pc[p] \in {"done", "cancelled"})
    /\ [](/\ lockHolder # None => InSection(lockHolder)
          /\ \A i \in 1..Len(lockWaiters) : pc[lockWaiters[i]] = "waitlock"
          /\ \A p \in Procs : pc[p] = "waitlock" => lockHolder # None)
    /\ [][/\ \A p \in Procs :
                pc'[p] # pc[p] =>
                    \/ CallRank(pc'[p]) > CallRank(pc[p])
                    \/ CallRank(pc[p]) = 7 /\ pc'[p] = "idle"
          /\ \A p \in Procs :
                pc[p] # "done" /\ pc'[p] = "done" =>
                    /\ pc[p] = "append"
                    /\ admitted' = Append(admitted, clock)
          /\ admitted' # admitted =>
                \E p \in Procs : pc[p] = "append" /\ pc'[p] = "done"]_vars

\* a call has returned after a sleep, its timestamp recorded, behind a call
\* that was cancelled in its sleep
C30_Witness ==
    \E p, q \in Procs :
        /\ pc[p] = "done"
        /\ pc[q] = "cancelled"
        /\ admitted # <<>>
        /\ LastAdmitted = clock
        /\ Len(request_times) < Len(admitted)

====
